---- MODULE Spec2Model ----
(***************************************************************************)
(* Model of the wallet request broker (class RequestQueue): the pending    *)
(* table, the promise completion protocol, global auto-approve, the        *)
(* approval policy, the FIFO helpers and the policy-driven drain loop.     *)
(*                                                                         *)
(* Every action is one synchronous run of the code, from a call or a      *)
(* resumption after an await up to the next await or return.               *)
(***************************************************************************)
EXTENDS Integers, Sequences, FiniteSets, TLC

\* ------------------------------------------------------------------ bounds
MaxReq == 2          \* addRequest calls in one behaviour of Spec
NumIds == 2          \* size of the id space randomUUID().slice(0, 8) draws from
NumDrains == 2       \* drainRequests calls that may overlap
MaxTime == 2         \* last value of Date.now() explored
FifoReq == 3         \* addRequest calls, and ids, in one behaviour of SpecFifo
PolicyReq == 1       \* addRequest calls in one behaviour of SpecPolicy
NumWaits == 2        \* waitForRequest calls in one behaviour
DrainReq == 2        \* addRequest calls in one behaviour of SpecDrain
WaitReq == 3         \* addRequest calls in one behaviour of SpecWait
WaitMs == 1          \* timeoutMs of the waitForRequest calls
ErrorReq == 2        \* addRequest calls in one behaviour of SpecErrors
IdleReq == 2         \* addRequest calls in one behaviour of SpecIdle
WalletReq == 2       \* addRequest calls in one behaviour of SpecWallet
ClientReq == 3         \* requests submitted while approveUntilEmpty runs
ClientMaxRounds == 2   \* largest maxRounds of approveUntilEmpty
NumConns == 2          \* browser connections to the bridge
BridgeReq == 2         \* requests sent over the bridge
NumSubs == 2           \* subscriptions created
MaxBlock == 2          \* blocks the backend mines
MaxRemoves == 3        \* eth_unsubscribe calls
LiveReq == 2           \* requests submitted around the drain whose return is awaited
LiveMaxTime == 3       \* Date.now() at most, where every deadline is reached
MaxSockets == 2        \* sockets the provider opens
MaxCalls == 2          \* request() calls of the dApp

Ids == 1..NumIds
Drains == 1..NumDrains
WaitCalls == 1..NumWaits

\* --------------------------------------------------------------- constants
USER_REJECTED == 4001
UNAUTHORIZED == 4100
UNSUPPORTED_METHOD == 4200
DISCONNECTED == 4900
CHAIN_DISCONNECTED == 4901
EIP1193_CODES == {USER_REJECTED, UNAUTHORIZED, UNSUPPORTED_METHOD, DISCONNECTED,
                  CHAIN_DISCONNECTED}
USER_REJECTED_MESSAGE == "User rejected the request"
BACKEND_FAILURE == -1       \* an error thrown by the wallet: carries no code
NO_CODE == 0

\* 1 unit of wei in the model is 10^12 wei; maxValueEth is held in milli-ETH.
WeiPerMilliEth == 1000
TenthEth == 100             \* maxValueEth: 0.1
TwoEth == 2000000           \* 0x1bc16d674ec80000
SmallValue == 50000         \* 0.05 ETH
NoValue == -1               \* txParams.value undefined
NoMax == -1                 \* policy.maxValueEth undefined

AddrA == "0xA"
AddrB == "0xB"
NoTo == ""                  \* txParams.to undefined

SEND_TX == "eth_sendTransaction"
CHAIN_ID == "eth_chainId"
PERSONAL_SIGN == "personal_sign"
Methods == {SEND_TX, CHAIN_ID, PERSONAL_SIGN}
GET_CODE == "eth_getCode"   \* a method processRequest has no case for

\* the addresses of ANVIL_ACCOUNTS, index 0 first
ANVIL_ACCOUNTS ==
  <<"0xf39Fd6e51aad88F6F4ce6aB8827279cffFb92266", "0x70997970C51812dc3A010C7d01b50e0d17dc79C8",
    "0x3C44CdDdB6a900fa2b585dd299e03d12FA4293BC", "0x90F79bf6EB2c4f870365E785982E1f101E93b906",
    "0x15d34AAf54267DB7D7c367839AAf71A00a2C6A65", "0x9965507D1a55bcC2695C58ba16FB37d819B0A4dc",
    "0x976EA74026E726554dB657fA54763abd0C3a0aa9", "0x14dC79964da2C08b23698B3D3cc7Ca32193d9955",
    "0x23618e81E3f5cdF7f54C3d65f7FBc0aBf5B21E8f", "0xa0Ee7A142d267C1f36714E4a8F75612F20a79720">>

\* the Wallet: the address of this.account and this.chain.id
DEFAULT_CHAIN_ID == 31337
DEFAULT_ACCOUNT_INDEX == 0
DefaultWallet == [account |-> ANVIL_ACCOUNTS[DEFAULT_ACCOUNT_INDEX + 1],
                  chainId |-> DEFAULT_CHAIN_ID]
NoWallet == [account |-> "", chainId |-> 0]

NoTx == [present |-> FALSE, to |-> NoTo, value |-> NoValue]
Tx(to, value) == [present |-> TRUE, to |-> to, value |-> value]

NoPolicy == [none |-> TRUE]

\* DEFAULT_POLICY restricted to the methods of the model
DEFAULT_POLICY ==
  [mode |-> "auto", allowMethods |-> {CHAIN_ID}, denyMethods |-> {},
   maxValueEth |-> TenthEth, allowTo |-> {}, denyTo |-> {}]

VARIABLES
  requests,      \* Map<string, WalletRequest>, in its iteration (insertion) order
  autoApprove,   \* the global auto-approve flag
  policy,        \* this.policy
  now,           \* Date.now()
  hist,          \* one record per addRequest call: what happened to that request object
  calls,         \* processRequest calls waiting for the wallet: [rid, by]
  drains,        \* the drainRequests calls: their locals and where they are suspended
  last,          \* outcome of the last control operation
  waiters,       \* this.waiters: the callbacks pushed by waitForRequest, in order
  waits,         \* the waitForRequest calls: their promise and timer
  basePolicy,    \* DEFAULT_POLICY with the partials of the setPolicy calls merged in
  wallet,        \* the Wallet: its account and its chain
  idle,          \* the waitForIdle call: its locals and where it is suspended
  client,        \* the WalletClient's approveUntilEmpty call
  subs,          \* the subscriptions, their polls and the notifications sent
  provider,      \* the injected provider: its socket, promise and request calls
  bridge         \* the WebSocketBridge: its clients and handleRequest calls

vars == <<requests, autoApprove, policy, now, hist, calls, drains, last,
         waiters, waits, basePolicy, wallet, idle, client, subs, provider, bridge>>

\* ---------------------------------------------------------- Map operations
HasId(reqs, id) == \E i \in 1..Len(reqs) : reqs[i].id = id

MapGet(reqs, id) == reqs[CHOOSE i \in 1..Len(reqs) : reqs[i].id = id]

\* Map.set: an existing key keeps its position and gets the new value
MapSet(reqs, req) ==
  IF HasId(reqs, req.id)
  THEN [i \in 1..Len(reqs) |-> IF reqs[i].id = req.id THEN req ELSE reqs[i]]
  ELSE Append(reqs, req)

MapDelete(reqs, id) == SelectSeq(reqs, LAMBDA r : r.id # id)

InTable(rid) == \E i \in 1..Len(requests) : requests[i].rid = rid

\* ------------------------------------------------- Array.prototype.sort
\* the comparator written the wrong way round: (a, b) => b.timestamp - a.timestamp
RECURSIVE InsertNewestFirst(_, _)
InsertNewestFirst(sorted, r) ==
  IF sorted = <<>> THEN <<r>>
  ELSE IF Head(sorted).timestamp >= r.timestamp
       THEN <<Head(sorted)>> \o InsertNewestFirst(Tail(sorted), r)
       ELSE <<r>> \o sorted

\* stable insertion of r into a sequence sorted by (a, b) => a.timestamp - b.timestamp
RECURSIVE InsertByTimestamp(_, _)
InsertByTimestamp(sorted, r) ==
  IF sorted = <<>> THEN <<r>>
  ELSE IF Head(sorted).timestamp <= r.timestamp
       THEN <<Head(sorted)>> \o InsertByTimestamp(Tail(sorted), r)
       ELSE <<r>> \o sorted

RECURSIVE SortByTimestamp(_)
SortByTimestamp(reqs) ==
  IF reqs = <<>> THEN <<>>
  ELSE InsertByTimestamp(SortByTimestamp(SubSeq(reqs, 1, Len(reqs) - 1)), reqs[Len(reqs)])

\* requests.sort(...)[0]
Oldest(reqs) == SortByTimestamp(reqs)[1]

\* ------------------------------------------------------------ bookkeeping
NoError == [message |-> "", code |-> NO_CODE]

\* what the caller of approveRequest got back: "result" or "error", and the error
NoApprover == [outcome |-> "none", error |-> NoError]

Fresh(id, method, tx, queued) ==
  [id |-> id, method |-> method, tx |-> tx, timestamp |-> now, queued |-> queued,
   removed |-> "no", invoked |-> 0, resolves |-> 0, rejects |-> 0, error |-> NoError,
   decision |-> "none", approver |-> NoApprover, wallet |-> NoWallet,
   walletAtSubmit |-> wallet]

\* request.resolve(result)
Resolve(h, rid) == [h EXCEPT ![rid].resolves = @ + 1]

\* request.reject(error)
Reject(h, rid, message, code) ==
  [h EXCEPT ![rid].rejects = @ + 1,
            ![rid].error = IF h[rid].resolves + h[rid].rejects = 0
                           THEN [message |-> message, code |-> code] ELSE @]

\* how the request left the table: "approved", "rejected", "cleared", "replaced"
Removed(h, rid, how) == [h EXCEPT ![rid].removed = how]

\* processRequest that calls the wallet whatever the method
InvokedAnyMethod(h, rid) ==
  [h EXCEPT ![rid].invoked = @ + 1, ![rid].wallet = wallet]

\* processRequest(request) runs up to its first await: a method of the dispatch
\* table calls the wallet, which reads its account and chain now
Invoked(h, rid) ==
  IF h[rid].method \in Methods
  THEN [h EXCEPT ![rid].invoked = @ + 1, ![rid].wallet = wallet]
  ELSE h

\* `Unsupported method: ${method}`
UnsupportedMessage(method) == "Unsupported method: " \o method

\* what processRequest gives: the wallet's answer (ok) or the error it throws,
\* and for a method outside the dispatch table the error of the default case
Outcome(method, ok) ==
  IF method \notin Methods
  THEN [ok |-> FALSE, error |-> [message |-> UnsupportedMessage(method), code |-> NO_CODE]]
  ELSE IF ok
       THEN [ok |-> TRUE, error |-> NoError]
       ELSE [ok |-> FALSE, error |-> [message |-> "backend failure", code |-> BACKEND_FAILURE]]

\* approveRequest whose catch block does not rethrow
DeliverSwallowsError(h, c, out) ==
  LET h1 == IF out.ok THEN Resolve(h, c.rid)
            ELSE Reject(h, c.rid, out.error.message, out.error.code)
  IN IF c.by = "auto" THEN h1
     ELSE [h1 EXCEPT ![c.rid].approver = [outcome |-> "result", error |-> NoError]]

\* request.resolve(result); return result  /  request.reject(error); throw error
\* (under auto-approve there is no caller: .then(resolve).catch(reject))
Deliver(h, c, out) ==
  LET h1 == IF out.ok THEN Resolve(h, c.rid)
            ELSE Reject(h, c.rid, out.error.message, out.error.code)
  IN IF c.by = "auto" THEN h1
     ELSE [h1 EXCEPT ![c.rid].approver =
                       [outcome |-> IF out.ok THEN "result" ELSE "error",
                        error |-> out.error]]

\* finalState is getContext(): of its fields the model keeps pendingCount
NoResult == [status |-> "", approved |-> <<>>, rejected |-> <<>>,
             finalState |-> [pendingCount |-> 0]]

NoOp == [op |-> "none", id |-> 0, rid |-> 0, result |-> "", seen |-> 0, drain |-> NoResult]

Op(op, id, rid, result) ==
  [NoOp EXCEPT !.op = op, !.id = id, !.rid = rid, !.result = result,
               !.seen = Len(requests)]

\* ---------------------------------------------------------------- drains
IdleDrain ==
  [pc |-> "off", override |-> NoPolicy, originalPolicy |-> NoPolicy,
   deadline |-> 0, settleMs |-> 0, maxDepth |-> 0, depth |-> 0,
   lastActivityTime |-> 0, wakeAt |-> 0, status |-> "",
   approved |-> <<>>, rejected |-> <<>>]

\* ------------------------------------------------------------ waitForRequest
\* a waitForRequest call: where it is, the request it returned, its timer,
\* and whether it returned without suspending
NoWait == [pc |-> "off", rid |-> 0, deadline |-> 0, immediate |-> FALSE]

\* the waitForIdle call: where it is, its locals, its return value, and the
\* number of addRequest calls made before its settle sleep began
NoIdle == [pc |-> "off", deadline |-> 0, settleMs |-> 0, wakeAt |-> 0, startSize |-> 0,
           result |-> FALSE, histLen |-> 0]

\* the function waitForRequest pushes on this.waiters, and the promise's resolve
Wrapper(w) == [fn |-> "wrapper", w |-> w]
ResolveOf(w) == [fn |-> "resolve", w |-> w]

\* Array.prototype.indexOf, 1-based; 0 stands for -1
IndexOf(ws, f) ==
  IF \E i \in 1..Len(ws) : ws[i] = f
  THEN CHOOSE i \in 1..Len(ws) : ws[i] = f /\ \A j \in 1..(i - 1) : ws[j] # f
  ELSE 0

\* the notification given to the first callback only: this.waiters.shift()
NotifyFirstOnly(wts, ws, rid) ==
  [w \in DOMAIN wts |->
     IF ws # <<>> /\ ws[1].w = w /\ wts[w].pc = "waiting"
     THEN [wts[w] EXCEPT !.pc = "returned", !.rid = rid]
     ELSE wts[w]]

\* for (const waiter of this.waiters) waiter(serialized): clearTimeout, then
\* resolve, which does nothing on a promise that is already settled
Notify(wts, ws, rid) ==
  [w \in DOMAIN wts |->
     IF (\E i \in 1..Len(ws) : ws[i].w = w) /\ wts[w].pc = "waiting"
     THEN [wts[w] EXCEPT !.pc = "returned", !.rid = rid]
     ELSE wts[w]]

\* ApprovalResult of the WalletClient
NoApproval == [approved |-> 0, errors |-> <<>>]

\* the approveUntilEmpty call: round, the pending list approveAllPending
\* walks, the request whose approval it awaits, roundResult and totalResult;
\* rounds counts the calls of approveAllPending
NoClient ==
  [pc |-> "off", round |-> 0, maxRounds |-> 0, pending |-> <<>>, rid |-> 0,
   roundResult |-> NoApproval, totalResult |-> NoApproval, rounds |-> 0]

\* lastBlockNumber: bigint | null = null
NULL_BLOCK == -1

\* the ids createSubscription gives
SubIds == 1..NumSubs

\* this.subscriptions, this.lastBlockNumber, the timer callbacks waiting for
\* wallet.getBlockNumber(), the block number of the backend, the calls of the
\* subscription callback, what the removeSubscription calls returned, and
\* for every subscription the block number its own last poll got
NoSubs ==
  [subscriptions |-> {}, lastBlockNumber |-> NULL_BLOCK, polls |-> {},
   blockNumber |-> 0, notified |-> <<>>, removed |-> <<>>, created |-> 0,
   seen |-> [id \in SubIds |-> NULL_BLOCK]]

\* the provider after its constructor: connect() has made connection promise
\* 1 and socket 1. promises are the connection promises made so far, one per
\* socket; handlers the onopen handlers that have started, calls the
\* request() calls, pendingRequests the calls that wait for a response
NewProvider ==
  [readyState |-> "connecting", connected |-> FALSE, connectionPromise |-> 1,
   promises |-> <<"pending">>, handlers |-> <<>>, calls |-> <<>>,
   pendingRequests |-> {}, requestId |-> 0, chainId |-> "", emitted |-> <<>>,
   ready |-> FALSE, timer |-> FALSE]

\* the bridge after start(): this.clients, the connections that have closed,
\* the connection each handleRequest call serves, the newPendingRequest
\* notifications broadcast and the responses sent
NoBridge ==
  [clients |-> {}, closed |-> {}, origin |-> {}, notifications |-> 0, responses |-> {}]

Init ==
  /\ requests = <<>>
  /\ autoApprove = FALSE
  /\ policy = DEFAULT_POLICY
  /\ now = 0
  /\ hist = <<>>
  /\ calls = {}
  /\ drains = [d \in Drains |-> IdleDrain]
  /\ last = NoOp
  /\ waiters = <<>>
  /\ waits = [w \in WaitCalls |-> NoWait]
  /\ basePolicy = DEFAULT_POLICY
  /\ wallet = DefaultWallet
  /\ idle = NoIdle
  /\ client = NoClient
  /\ subs = NoSubs
  /\ provider = NewProvider
  /\ bridge = NoBridge

\* -------------------------------------------------------------- addRequest
\* addRequest without the auto-approve branch: every request is queued
AddRequestAlwaysQueues(id, method, tx) ==
  /\ LET rid == Len(hist) + 1
         req == [id |-> id, rid |-> rid, method |-> method, tx |-> tx, timestamp |-> now]
     IN /\ requests' = MapSet(requests, req)
        /\ hist' = LET h == Append(hist, Fresh(id, method, tx, TRUE))
                   IN IF HasId(requests, id)
                      THEN Removed(h, MapGet(requests, id).rid, "replaced")
                      ELSE h
        /\ waits' = Notify(waits, waiters, rid)
        /\ waiters' = <<>>
        /\ UNCHANGED calls
  /\ UNCHANGED <<autoApprove, policy, now, drains, last, basePolicy, wallet, idle>>
  /\ UNCHANGED <<client, subs, provider>>

AddRequest(id, method, tx) ==
  /\ LET rid == Len(hist) + 1
         req == [id |-> id, rid |-> rid, method |-> method, tx |-> tx, timestamp |-> now]
     IN IF autoApprove
        THEN /\ hist' = Invoked(Append(hist, Fresh(id, method, tx, FALSE)), rid)
             /\ calls' = calls \cup {[rid |-> rid, by |-> "auto", drain |-> 0]}
             /\ UNCHANGED <<requests, waiters, waits>>
        ELSE /\ requests' = MapSet(requests, req)
             /\ hist' = LET h == Append(hist, Fresh(id, method, tx, TRUE))
                        IN IF HasId(requests, id)
                           THEN Removed(h, MapGet(requests, id).rid, "replaced")
                           ELSE h
             /\ waits' = Notify(waits, waiters, rid)
             /\ waiters' = <<>>
             /\ UNCHANGED calls
  /\ UNCHANGED <<autoApprove, policy, now, drains, last, basePolicy, wallet, idle>>
  /\ UNCHANGED <<client, subs, provider>>

\* ---------------------------------------------------------- approveRequest
\* approveRequest that leaves the entry in the table while the wallet works
ApproveRequestKeepsEntry(id) ==
  /\ IF ~HasId(requests, id)
     THEN /\ last' = Op("approve", id, 0, "NotFound")
          /\ UNCHANGED <<requests, hist, calls>>
     ELSE LET rid == MapGet(requests, id).rid
          IN /\ requests' = requests
             /\ hist' = Invoked(Removed(hist, rid, "approved"), rid)
             /\ calls' = calls \cup {[rid |-> rid, by |-> "approve", drain |-> 0]}
             /\ last' = Op("approve", id, rid, "started")
  /\ UNCHANGED <<autoApprove, policy, now, drains, waiters, waits, basePolicy, wallet, idle>>
  /\ UNCHANGED <<subs, provider, bridge>>

\* up to `await this.processRequest(request)`
ApproveRequest(id) ==
  /\ IF ~HasId(requests, id)
     THEN /\ last' = Op("approve", id, 0, "NotFound")
          /\ UNCHANGED <<requests, hist, calls>>
     ELSE LET rid == MapGet(requests, id).rid
          IN /\ requests' = MapDelete(requests, id)
             /\ hist' = Invoked(Removed(hist, rid, "approved"), rid)
             /\ calls' = calls \cup {[rid |-> rid, by |-> "approve", drain |-> 0]}
             /\ last' = Op("approve", id, rid, "started")
  /\ UNCHANGED <<autoApprove, policy, now, drains, waiters, waits, basePolicy, wallet, idle>>
  /\ UNCHANGED <<subs, provider, bridge>>

\* ----------------------------------------------------------- rejectRequest
Undefined == "<undefined>"   \* the reason argument left out

\* reason ?? EIP1193_ERRORS.USER_REJECTED.message
ReasonOrDefault(reason) == IF reason = Undefined THEN USER_REJECTED_MESSAGE ELSE reason

\* rejectRequest that always rejects with the default message
RejectRequestIgnoresReason(id, reason) ==
  /\ IF ~HasId(requests, id)
     THEN /\ last' = Op("reject", id, 0, "NotFound")
          /\ UNCHANGED <<requests, hist>>
     ELSE LET rid == MapGet(requests, id).rid
          IN /\ requests' = MapDelete(requests, id)
             /\ hist' = Reject(Removed(hist, rid, "rejected"), rid,
                               USER_REJECTED_MESSAGE, USER_REJECTED)
             /\ last' = Op("reject", id, rid, "ok")
  /\ UNCHANGED <<autoApprove, policy, now, calls, drains, waiters, waits, basePolicy,
                 wallet, idle>>
  /\ UNCHANGED <<client, subs, provider, bridge>>

RejectRequest(id, reason) ==
  /\ IF ~HasId(requests, id)
     THEN /\ last' = Op("reject", id, 0, "NotFound")
          /\ UNCHANGED <<requests, hist>>
     ELSE LET rid == MapGet(requests, id).rid
          IN /\ requests' = MapDelete(requests, id)
             /\ hist' = Reject(Removed(hist, rid, "rejected"), rid,
                               ReasonOrDefault(reason), USER_REJECTED)
             /\ last' = Op("reject", id, rid, "ok")
  /\ UNCHANGED <<autoApprove, policy, now, calls, drains, waiters, waits, basePolicy, wallet, idle>>
  /\ UNCHANGED <<client, subs, provider, bridge>>

\* ------------------------------------------------------------------- clear
RECURSIVE RejectAll(_, _)
RejectAll(h, reqs) ==
  IF reqs = <<>> THEN h
  ELSE RejectAll(Reject(Removed(h, Head(reqs).rid, "cleared"), Head(reqs).rid,
                        "Queue cleared", DISCONNECTED),
                 Tail(reqs))

\* clear() that rejects every entry and forgets to empty the table
ClearKeepsEntries ==
  /\ hist' = RejectAll(hist, requests)
  /\ requests' = requests
  /\ last' = Op("clear", 0, 0, "ok")
  /\ UNCHANGED <<autoApprove, policy, now, calls, drains, waiters, waits, basePolicy, wallet, idle>>
  /\ UNCHANGED <<client, subs, provider, bridge>>

\* clear() reduced to this.requests.clear(): no entry's reject is called
ClearDropsSilently ==
  /\ hist' = [r \in DOMAIN hist |->
               IF InTable(r) THEN [hist[r] EXCEPT !.removed = "cleared"] ELSE hist[r]]
  /\ requests' = <<>>
  /\ last' = Op("clear", 0, 0, "ok")
  /\ UNCHANGED <<autoApprove, policy, now, calls, drains, waiters, waits, basePolicy, wallet, idle>>
  /\ UNCHANGED <<client, subs, provider, bridge>>

Clear ==
  /\ hist' = RejectAll(hist, requests)
  /\ requests' = <<>>
  /\ last' = Op("clear", 0, 0, "ok")
  /\ UNCHANGED <<autoApprove, policy, now, calls, drains, waiters, waits, basePolicy, wallet, idle>>
  /\ UNCHANGED <<client, subs, provider, bridge>>

\* ----------------------------------------------------------- setAutoApprove
SetAutoApprove(enabled) ==
  /\ autoApprove' = enabled
  /\ UNCHANGED <<requests, policy, now, hist, calls, drains, last, waiters, waits, basePolicy,
                 wallet, idle>>
  /\ UNCHANGED <<client, subs, provider, bridge>>

\* ---------------------------------------------------------------- Date.now
Tick ==
  /\ now' = now + 1
  /\ UNCHANGED <<requests, autoApprove, policy, hist, calls, drains, last, waiters, waits,
                 basePolicy, wallet, idle>>
  /\ UNCHANGED <<client, subs, provider, bridge>>


\* --------------------------------------------------------------- setPolicy
\* a merge that adds the elements of a list field to those already there
MergeDeep(p, partial) ==
  [f \in DOMAIN p |->
     IF f \notin DOMAIN partial THEN p[f]
     ELSE IF f \in {"allowMethods", "denyMethods", "allowTo", "denyTo"}
          THEN p[f] \cup partial[f]
          ELSE partial[f]]

\* { ...this.policy, ...partial }
Merge(p, partial) ==
  [f \in DOMAIN p |-> IF f \in DOMAIN partial THEN partial[f] ELSE p[f]]

SetPolicy(partial) ==
  /\ policy' = Merge(policy, partial)
  /\ basePolicy' = Merge(basePolicy, partial)
  /\ UNCHANGED <<requests, autoApprove, now, hist, calls, drains, last, waiters, waits,
                 wallet, idle>>
  /\ UNCHANGED <<client, subs, provider, bridge>>

\* { ...this.policy }
getPolicy == policy

\* ------------------------------------------------------------ waitForRequest
\* the call: returns getPendingRequests()[0] when there is one, otherwise
\* pushes its callback and starts its timer
\* waitForRequest that takes the request it returns out of the table
WaitForRequestTakes(w, timeoutMs) ==
  /\ waits[w].pc = "off"
  /\ IF requests # <<>>
     THEN /\ waits' = [waits EXCEPT ![w] = [NoWait EXCEPT !.pc = "returned",
                                                         !.rid = requests[1].rid,
                                                         !.immediate = TRUE]]
          /\ requests' = Tail(requests)
          /\ UNCHANGED waiters
     ELSE /\ waits' = [waits EXCEPT ![w] = [NoWait EXCEPT !.pc = "waiting",
                                                         !.deadline = now + timeoutMs]]
          /\ waiters' = Append(waiters, Wrapper(w))
          /\ UNCHANGED requests
  /\ UNCHANGED <<autoApprove, policy, now, hist, calls, drains, last, basePolicy,
                 wallet, idle>>
  /\ UNCHANGED <<client, subs, provider, bridge>>

WaitForRequest(w, timeoutMs) ==
  /\ waits[w].pc = "off"
  /\ IF requests # <<>>
     THEN /\ waits' = [waits EXCEPT ![w] = [NoWait EXCEPT !.pc = "returned",
                                                         !.rid = requests[1].rid,
                                                         !.immediate = TRUE]]
          /\ UNCHANGED waiters
     ELSE /\ waits' = [waits EXCEPT ![w] = [NoWait EXCEPT !.pc = "waiting",
                                                         !.deadline = now + timeoutMs]]
          /\ waiters' = Append(waiters, Wrapper(w))
  /\ UNCHANGED <<requests, autoApprove, policy, now, hist, calls, drains, last, basePolicy,
                 wallet, idle>>
  /\ UNCHANGED <<client, subs, provider, bridge>>

\* the timer of a suspended call fires: this.waiters.indexOf(resolve), splice
\* when found, reject
WaitTimeout(w) ==
  /\ waits[w].pc = "waiting"
  /\ now >= waits[w].deadline
  /\ LET index == IndexOf(waiters, ResolveOf(w))
     IN waiters' = IF index # 0
                   THEN SubSeq(waiters, 1, index - 1) \o SubSeq(waiters, index + 1, Len(waiters))
                   ELSE waiters
  /\ waits' = [waits EXCEPT ![w].pc = "timeout"]
  /\ UNCHANGED <<requests, autoApprove, policy, now, hist, calls, drains, last, basePolicy,
                 wallet, idle>>
  /\ UNCHANGED <<client, subs, provider, bridge>>

\* ------------------------------------------------------------- waitForIdle
POLL_MS == 100               \* sleep(100) while requests are pending

\* the while loop, from its head to the next sleep or to `return false`
IdleLoop(il) ==
  IF now >= il.deadline
  THEN [il EXCEPT !.pc = "done", !.result = FALSE]
  ELSE IF Len(requests) > 0
       THEN [il EXCEPT !.pc = "poll", !.wakeAt = now + POLL_MS]
       ELSE [il EXCEPT !.pc = "settle", !.startSize = Len(requests),
                       !.wakeAt = now + il.settleMs, !.histLen = Len(hist)]

\* the call, up to its first sleep
WaitForIdle(timeoutMs, settleMs) ==
  /\ idle.pc = "off"
  /\ idle' = IdleLoop([NoIdle EXCEPT !.deadline = now + timeoutMs, !.settleMs = settleMs])
  /\ UNCHANGED <<requests, autoApprove, policy, now, hist, calls, drains, last, waiters,
                 waits, basePolicy, wallet>>
  /\ UNCHANGED <<client, subs, provider, bridge>>

\* a sleep has elapsed: after the settle sleep the size is compared with
\* startSize and with 0
IdleWake ==
  /\ idle.pc \in {"poll", "settle"}
  /\ now >= idle.wakeAt
  /\ idle' = IF /\ idle.pc = "settle"
                /\ Len(requests) = idle.startSize
                /\ Len(requests) = 0
             THEN [idle EXCEPT !.pc = "done", !.result = TRUE]
             ELSE IdleLoop(idle)
  /\ UNCHANGED <<requests, autoApprove, policy, now, hist, calls, drains, last, waiters,
                 waits, basePolicy, wallet>>
  /\ UNCHANGED <<client, subs, provider, bridge>>

\* time passes while nothing runs
Elapse(ms) ==
  /\ now' = now + ms
  /\ UNCHANGED <<requests, autoApprove, policy, hist, calls, drains, last, waiters, waits,
                 basePolicy, wallet, idle>>
  /\ UNCHANGED <<client, subs, provider, bridge>>

\* ------------------------------------------------------------------ Wallet
MAX_ACCOUNT_INDEX == 9
CHAIN_ID_ERROR == "Chain ID must be a positive integer"

\* a JavaScript number, as the fraction num / den
Num(n) == [num |-> n, den |-> 1]
OneAndAHalf == [num |-> 3, den |-> 2]

\* Number.isInteger(x)
IsInteger(x) == x.num % x.den = 0

getAddress == wallet.account
getChainId == wallet.chainId

\* switchAccount that also re-signs what the wallet is still working on
SwitchAccountRetroactive(accountIndex) ==
  /\ IF accountIndex < 0 \/ accountIndex > MAX_ACCOUNT_INDEX
     THEN /\ last' = Op("switchAccount", 0, 0, "threw")
          /\ UNCHANGED <<wallet, hist>>
     ELSE /\ wallet' = [wallet EXCEPT !.account = ANVIL_ACCOUNTS[accountIndex + 1]]
          /\ hist' = [r \in DOMAIN hist |->
                        IF \E c \in calls : c.rid = r
                        THEN [hist[r] EXCEPT !.wallet.account = ANVIL_ACCOUNTS[accountIndex + 1]]
                        ELSE hist[r]]
          /\ last' = Op("switchAccount", 0, 0, "ok")
  /\ UNCHANGED <<requests, autoApprove, policy, now, calls, drains, waiters, waits,
                 basePolicy, idle>>
  /\ UNCHANGED <<client, subs, provider, bridge>>

SwitchAccount(accountIndex) ==
  /\ IF accountIndex < 0 \/ accountIndex > MAX_ACCOUNT_INDEX
     THEN /\ last' = Op("switchAccount", 0, 0, "threw")
          /\ UNCHANGED <<wallet, hist>>
     ELSE /\ wallet' = [wallet EXCEPT !.account = ANVIL_ACCOUNTS[accountIndex + 1]]
          /\ hist' = hist
          /\ last' = Op("switchAccount", 0, 0, "ok")
  /\ UNCHANGED <<requests, autoApprove, policy, now, calls, drains, waiters, waits,
                 basePolicy, idle>>
  /\ UNCHANGED <<client, subs, provider, bridge>>

\* setChainId that accepts every number
SetChainIdUnchecked(chainId) ==
  /\ wallet' = [wallet EXCEPT !.chainId = chainId.num \div chainId.den]
  /\ last' = Op("setChainId", 0, 0, "ok")
  /\ UNCHANGED <<requests, autoApprove, policy, now, hist, calls, drains, waiters, waits,
                 basePolicy, idle>>
  /\ UNCHANGED <<client, subs, provider, bridge>>

SetChainId(chainId) ==
  /\ IF ~IsInteger(chainId) \/ chainId.num <= 0
     THEN /\ last' = Op("setChainId", 0, 0, CHAIN_ID_ERROR)
          /\ UNCHANGED wallet
     ELSE /\ wallet' = [wallet EXCEPT !.chainId = chainId.num \div chainId.den]
          /\ last' = Op("setChainId", 0, 0, "ok")
  /\ UNCHANGED <<requests, autoApprove, policy, now, hist, calls, drains, waiters, waits,
                 basePolicy, idle>>
  /\ UNCHANGED <<client, subs, provider, bridge>>

\* ------------------------------------------------------- shouldAutoApprove
Approve == [approve |-> TRUE, reason |-> ""]
Deny(reason) == [approve |-> FALSE, reason |-> reason]

\* BigInt(Math.floor((policy.maxValueEth ?? 0) * 1e18))
MaxWei(p) == (IF p.maxValueEth = NoMax THEN 0 ELSE p.maxValueEth) * WeiPerMilliEth

\* the decision with the default turned into an approval
shouldAutoApproveByDefault(request, p) ==
  LET method == request.method
      tx == request.tx
      isTx == method = SEND_TX /\ tx.present
  IN IF p.mode = "manual" THEN Deny("Policy mode is manual")
     ELSE IF method \in p.denyMethods THEN Deny("Method is in deny list")
     ELSE IF method \in p.allowMethods THEN Approve
     ELSE IF isTx /\ tx.value # NoValue /\ tx.value > MaxWei(p)
          THEN Deny("Transaction value exceeds max")
     ELSE IF isTx /\ tx.to # NoTo /\ p.allowTo # {} /\ tx.to \notin p.allowTo
          THEN Deny("Recipient not in allow list")
     ELSE IF isTx /\ tx.to # NoTo /\ tx.to \in p.denyTo
          THEN Deny("Recipient is in deny list")
     ELSE Approve

shouldAutoApprove(request, p) ==
  LET method == request.method
      tx == request.tx
      isTx == method = SEND_TX /\ tx.present
  IN IF p.mode = "manual" THEN Deny("Policy mode is manual")
     ELSE IF method \in p.denyMethods THEN Deny("Method is in deny list")
     ELSE IF method \in p.allowMethods THEN Approve
     ELSE IF isTx /\ tx.value # NoValue /\ tx.value > MaxWei(p)
          THEN Deny("Transaction value exceeds max")
     ELSE IF isTx /\ tx.to # NoTo /\ p.allowTo # {} /\ tx.to \notin p.allowTo
          THEN Deny("Recipient not in allow list")
     ELSE IF isTx /\ tx.to # NoTo /\ tx.to \in p.denyTo
          THEN Deny("Recipient is in deny list")
     ELSE Deny("Method not in allow list")

\* ------------------------------------------------- approveNext / rejectNext
ApproveNext ==
  /\ IF requests = <<>>
     THEN /\ last' = Op("approveNext", 0, 0, "null")
          /\ UNCHANGED <<requests, hist, calls>>
     ELSE LET next == Oldest(requests)
          IN /\ requests' = MapDelete(requests, next.id)
             /\ hist' = Invoked(Removed(hist, next.rid, "approved"), next.rid)
             /\ calls' = calls \cup {[rid |-> next.rid, by |-> "approve", drain |-> 0]}
             /\ last' = Op("approveNext", next.id, next.rid, "started")
  /\ UNCHANGED <<autoApprove, policy, now, drains, waiters, waits, basePolicy, wallet, idle>>
  /\ UNCHANGED <<client, subs, provider, bridge>>

RejectNext(reason) ==
  /\ IF requests = <<>>
     THEN /\ last' = Op("rejectNext", 0, 0, "null")
          /\ UNCHANGED <<requests, hist>>
     ELSE LET next == Oldest(requests)
          IN /\ requests' = MapDelete(requests, next.id)
             /\ hist' = Reject(Removed(hist, next.rid, "rejected"), next.rid,
                               ReasonOrDefault(reason), USER_REJECTED)
             /\ last' = Op("rejectNext", next.id, next.rid, "ok")
  /\ UNCHANGED <<autoApprove, policy, now, calls, drains, waiters, waits, basePolicy, wallet, idle>>
  /\ UNCHANGED <<client, subs, provider, bridge>>


\* ------------------------------------------------------------ drainRequests
SLEEP_CAP == 100

Min(a, b) == IF a < b THEN a ELSE b

NoReq == [id |-> 0, rid |-> 0, method |-> "", tx |-> NoTx, timestamp |-> 0]

Entry(req, reason) ==
  [id |-> req.id, rid |-> req.rid, method |-> req.method, reason |-> reason]

\* the loop with its depth test off by one: depth <= maxDepth
RECURSIVE DrainLoopOneTooMany(_, _, _, _, _, _)
DrainLoopOneTooMany(dr, pol, reqs, depth, lastActivityTime, rejected) ==
  LET out(stop, status, req) ==
        [stop |-> stop, status |-> status, req |-> req, reqs |-> reqs, depth |-> depth,
         lastActivityTime |-> lastActivityTime, rejected |-> rejected]
  IN IF ~(now < dr.deadline /\ depth <= dr.maxDepth)
     THEN out("ctx", IF depth >= dr.maxDepth THEN "maxDepth" ELSE "timeout", NoReq)
     ELSE IF reqs = <<>>
     THEN IF now - lastActivityTime >= dr.settleMs
          THEN out("ctx", "idle", NoReq)
          ELSE out("sleep", "", NoReq)
     ELSE LET request == Oldest(reqs)
              decision == shouldAutoApprove(request, pol)
          IN IF decision.approve
             THEN [stop |-> "exec", status |-> "", req |-> request,
                   reqs |-> MapDelete(reqs, request.id), depth |-> depth + 1,
                   lastActivityTime |-> now, rejected |-> rejected]
             ELSE DrainLoopOneTooMany(dr, pol, MapDelete(reqs, request.id), depth + 1, now,
                                      Append(rejected, Entry(request, decision.reason)))

\* The while loop of drainRequests from its condition up to the next await:
\* policy denials are rejected one after the other without suspending.
RECURSIVE DrainLoop(_, _, _, _, _, _)
DrainLoop(dr, pol, reqs, depth, lastActivityTime, rejected) ==
  LET out(stop, status, req) ==
        [stop |-> stop, status |-> status, req |-> req, reqs |-> reqs, depth |-> depth,
         lastActivityTime |-> lastActivityTime, rejected |-> rejected]
  IN IF ~(now < dr.deadline /\ depth < dr.maxDepth)
     THEN out("ctx", IF depth >= dr.maxDepth THEN "maxDepth" ELSE "timeout", NoReq)
     ELSE IF reqs = <<>>
     THEN IF now - lastActivityTime >= dr.settleMs
          THEN out("ctx", "idle", NoReq)
          ELSE out("sleep", "", NoReq)
     ELSE LET request == Oldest(reqs)
              decision == shouldAutoApprove(request, pol)
          IN IF decision.approve
             THEN [stop |-> "exec", status |-> "", req |-> request,
                   reqs |-> MapDelete(reqs, request.id), depth |-> depth + 1,
                   lastActivityTime |-> now, rejected |-> rejected]
             ELSE DrainLoop(dr, pol, MapDelete(reqs, request.id), depth + 1, now,
                            Append(rejected, Entry(request, decision.reason)))

\* the denials rejected by this.rejectRequest(request.id), the reason left out
RECURSIVE RejectDeniedWithoutReason(_, _, _)
RejectDeniedWithoutReason(h, entries, pol) ==
  IF entries = <<>> THEN h
  ELSE LET e == Head(entries)
           h1 == [h EXCEPT ![e.rid].decision = "deny"]
       IN RejectDeniedWithoutReason(
            Reject(Removed(h1, e.rid, "rejected"), e.rid, "User rejected the request",
                   USER_REJECTED),
            Tail(entries), pol)

\* this.rejectRequest(request.id, decision.reason) for every denial of one run
RECURSIVE RejectDenied(_, _, _)
RejectDenied(h, entries, pol) ==
  IF entries = <<>> THEN h
  ELSE LET e == Head(entries)
           h1 == [h EXCEPT ![e.rid].decision = "deny"]
       IN RejectDenied(Reject(Removed(h1, e.rid, "rejected"), e.rid, e.reason, USER_REJECTED),
                       Tail(entries), pol)

\* One run of the loop of drain d, from the locals dr, the policy pol and the
\* bookkeeping h, and the state it leaves.
RunDrain(d, dr, pol, h, cs) ==
  LET run == DrainLoop(dr, pol, requests, dr.depth, dr.lastActivityTime, <<>>)
      h1 == RejectDenied(h, run.rejected, pol)
  IN /\ requests' = run.reqs
     /\ hist' = IF run.stop = "exec"
                THEN [Invoked(Removed(h1, run.req.rid, "approved"), run.req.rid)
                        EXCEPT ![run.req.rid].decision = "approve"]
                ELSE h1
     /\ calls' = IF run.stop = "exec"
                 THEN cs \cup {[rid |-> run.req.rid, by |-> "drain", drain |-> d]}
                 ELSE cs
     /\ drains' = [drains EXCEPT ![d] =
                     [dr EXCEPT !.pc = run.stop, !.status = run.status,
                                !.depth = run.depth,
                                !.lastActivityTime = run.lastActivityTime,
                                !.rejected = @ \o run.rejected,
                                !.wakeAt = IF run.stop = "sleep"
                                           THEN now + Min(SLEEP_CAP,
                                                  dr.settleMs - (now - run.lastActivityTime))
                                           ELSE 0]]

\* the call, up to the first await
DrainRequests(d, override, timeoutMs, settleMs, maxDepth) ==
  /\ drains[d].pc = "off"
  /\ LET pol == IF override = NoPolicy THEN policy ELSE Merge(policy, override)
         \* originalPolicy is read only when an override was given
         dr == [IdleDrain EXCEPT !.override = override,
                                 !.originalPolicy = IF override = NoPolicy THEN NoPolicy
                                                    ELSE policy,
                                 !.deadline = now + timeoutMs, !.settleMs = settleMs,
                                 !.maxDepth = maxDepth, !.lastActivityTime = now]
     IN /\ policy' = pol
        /\ RunDrain(d, dr, pol, hist, calls)
  /\ UNCHANGED <<autoApprove, now, last, waiters, waits, basePolicy, wallet, idle>>
  /\ UNCHANGED <<client, subs, provider, bridge>>

\* the settle wait has elapsed
DrainWake(d) ==
  /\ drains[d].pc = "sleep"
  /\ now >= drains[d].wakeAt
  /\ RunDrain(d, drains[d], policy, hist, calls)
  /\ UNCHANGED <<autoApprove, policy, now, last, waiters, waits, basePolicy, wallet, idle>>
  /\ UNCHANGED <<client, subs, provider, bridge>>

\* getContext() has returned (ok) or thrown: the drain returns, its finally
\* block restores the policy
DrainReturn(d, ok) ==
  /\ drains[d].pc = "ctx"
  /\ LET dr == drains[d]
     IN /\ last' = [NoOp EXCEPT !.op = "drain", !.id = d,
                                !.result = IF ok THEN "ok" ELSE "threw",
                                !.drain =
                                  IF ok
                                  THEN [status |-> dr.status, approved |-> dr.approved,
                                        rejected |-> dr.rejected,
                                        finalState |-> [pendingCount |-> Len(requests)]]
                                  ELSE NoResult]
        /\ policy' = IF dr.override = NoPolicy THEN policy ELSE dr.originalPolicy
  /\ drains' = [drains EXCEPT ![d] = IdleDrain]
  /\ UNCHANGED <<requests, autoApprove, now, hist, calls, waiters, waits, basePolicy, wallet, idle>>
  /\ UNCHANGED <<client, subs, provider, bridge>>

\* ------------------------------------------------- processRequest returns
\* the drain without its inner try/catch: a failed approval ends the drain
BackendReturnAborts(c, ok) ==
  /\ c \in calls
  /\ LET out == Outcome(hist[c.rid].method, ok)
         h == Deliver(hist, c, out)
     IN IF c.by = "drain" /\ out.ok
        THEN LET dr == drains[c.drain]
                 req == [id |-> h[c.rid].id, rid |-> c.rid, method |-> h[c.rid].method]
             IN RunDrain(c.drain, [dr EXCEPT !.approved = Append(@, Entry(req, ""))],
                         policy, h, calls \ {c})
        ELSE /\ hist' = h
             /\ calls' = calls \ {c}
             /\ drains' = IF c.by = "drain" THEN [drains EXCEPT ![c.drain] = IdleDrain]
                          ELSE drains
             /\ UNCHANGED requests
  /\ UNCHANGED <<autoApprove, policy, now, last, waiters, waits, basePolicy, wallet, idle>>
  /\ UNCHANGED <<client, subs, provider, bridge>>

\* the wallet call of c returns (ok) or throws
BackendReturn(c, ok) ==
  /\ c \in calls
  /\ LET out == Outcome(hist[c.rid].method, ok)
         h == Deliver(hist, c, out)
     IN IF c.by = "drain"
        THEN LET dr == drains[c.drain]
                 req == [id |-> h[c.rid].id, rid |-> c.rid, method |-> h[c.rid].method]
                 dr1 == IF out.ok
                        THEN [dr EXCEPT !.approved = Append(@, Entry(req, ""))]
                        ELSE [dr EXCEPT !.rejected =
                                          Append(@, Entry(req, out.error.message))]
             IN RunDrain(c.drain, dr1, policy, h, calls \ {c})
        ELSE /\ hist' = h
             /\ calls' = calls \ {c}
             /\ UNCHANGED <<requests, drains>>
  /\ UNCHANGED <<autoApprove, policy, now, last, waiters, waits, basePolicy, wallet, idle>>
  /\ UNCHANGED <<client, subs, provider, bridge>>


\* ------------------------------------------------------ MCP tool handlers
\* the tool that makes the queue call recorded as op
ToolOf(op) ==
  CASE op = "approve" -> "wallet_approveRequest"
    [] op = "reject" -> "wallet_rejectRequest"
    [] op = "approveNext" -> "wallet_approveNext"
    [] op = "rejectNext" -> "wallet_rejectNext"
    [] op = "drain" -> "wallet_drainRequests"

\* the handlers whose queue call sits in a try block
HandlersWithCatch == {"wallet_approveRequest", "wallet_rejectRequest", "wallet_waitForRequest"}

\* what the caller of a tool gets when the queue call returns or throws: the
\* handler's result, its { success: false, error } result, or the exception
ToolOutcome(tool, threw) ==
  IF ~threw THEN "result"
  ELSE IF tool \in HandlersWithCatch THEN "errorResult"
  ELSE "exception"

\* ------------------------------------------------------------------ inputs
Reasons == {"Suspicious"}
TimeoutMs == 2
SettleMs == 1
MaxDepth == 2

\* ------------------------------------------------------- the pending table
\* Every operation on the pending table, two drains that may overlap; the two
\* kinds of request are the one DEFAULT_POLICY approves and one it denies.
\* The drains run with settleMs: 0 (no quiet period).
SubmitKinds == {<<CHAIN_ID, NoTx>>, <<SEND_TX, Tx(AddrA, TwoEth)>>}

Next ==
  \/ \E id \in Ids, k \in SubmitKinds : Len(hist) < MaxReq /\ AddRequest(id, k[1], k[2]) /\ UNCHANGED bridge
  \/ \E id \in Ids : ApproveRequest(id) /\ UNCHANGED client
  \/ \E id \in Ids, reason \in Reasons : RejectRequest(id, reason)
  \/ ApproveNext
  \/ \E reason \in Reasons : RejectNext(reason)
  \/ Clear
  \/ \E enabled \in BOOLEAN : SetAutoApprove(enabled)
  \/ \E d \in Drains : DrainRequests(d, NoPolicy, TimeoutMs, 0, MaxDepth)
  \/ \E d \in Drains : DrainReturn(d, TRUE)
  \/ \E c \in calls, ok \in BOOLEAN : BackendReturn(c, ok)

Spec == Init /\ [][Next]_vars


\* -------------------------------------------------------------- FIFO order
\* Requests submitted at different times, with ids that may collide, taken
\* out by approveNext, rejectNext and one drain with a settle wait.
FifoIds == 1..FifoReq

NextFifo ==
  \/ \E id \in FifoIds : Len(hist) < FifoReq /\ AddRequest(id, CHAIN_ID, NoTx) /\ UNCHANGED bridge
  \/ ApproveNext
  \/ \E reason \in Reasons : RejectNext(reason)
  \/ DrainRequests(1, NoPolicy, TimeoutMs, SettleMs, MaxDepth)
  \/ DrainWake(1)
  \/ DrainReturn(1, TRUE)
  \/ \E c \in calls : BackendReturn(c, TRUE)
  \/ now < MaxTime /\ Tick

SpecFifo == Init /\ [][NextFifo]_vars

\* ------------------------------------------------------------ the policy
\* One request of every shape the policy tells apart, under every policy
\* that setPolicy can build from these values, decided by one drain
\* (settleMs: 0).
PolicyMethods == {SEND_TX, CHAIN_ID}
Recipients == {AddrA, AddrB}

PolicyKinds ==
  {<<CHAIN_ID, NoTx>>, <<SEND_TX, NoTx>>}
    \cup {<<SEND_TX, Tx(to, value)>> :
            to \in {NoTo, AddrA}, value \in {NoValue, 0, SmallValue, TwoEth}}

PolicyUpdates ==
  {[mode |-> m] : m \in {"manual", "auto"}}
    \cup {[allowMethods |-> ms] : ms \in SUBSET PolicyMethods}
    \cup {[denyMethods |-> ms] : ms \in SUBSET PolicyMethods}
    \cup {[maxValueEth |-> v] : v \in {NoMax, TenthEth}}
    \cup {[allowTo |-> as] : as \in SUBSET Recipients}
    \cup {[denyTo |-> as] : as \in SUBSET Recipients}

NextPolicy ==
  \/ \E k \in PolicyKinds : Len(hist) < PolicyReq /\ AddRequest(1, k[1], k[2]) /\ UNCHANGED bridge
  \/ \E partial \in PolicyUpdates : SetPolicy(partial)
  \/ DrainRequests(1, NoPolicy, TimeoutMs, 0, MaxDepth)
  \/ DrainReturn(1, TRUE)
  \/ \E c \in calls : BackendReturn(c, TRUE)

SpecPolicy == Init /\ [][NextPolicy]_vars

\* ------------------------------------------------------ global auto-approve
\* Requests submitted with auto-approve on and off, under policies that
\* would deny them, beside the operations that empty the table.
AutoUpdates ==
  {[mode |-> "manual"], [mode |-> "auto"],
   [denyMethods |-> Methods], [denyMethods |-> {}]}

NextAuto ==
  \/ \E id \in Ids, k \in SubmitKinds : Len(hist) < MaxReq /\ AddRequest(id, k[1], k[2]) /\ UNCHANGED bridge
  \/ \E enabled \in BOOLEAN : SetAutoApprove(enabled)
  \/ \E partial \in AutoUpdates : SetPolicy(partial)
  \/ ApproveNext
  \/ Clear
  \/ DrainRequests(1, NoPolicy, TimeoutMs, 0, MaxDepth)
  \/ DrainReturn(1, TRUE)
  \/ \E c \in calls, ok \in BOOLEAN : BackendReturn(c, ok)

SpecAuto == Init /\ [][NextAuto]_vars

\* -------------------------------------------------------------- the drain
\* One drain with every combination of its options (a policy override or
\* none, a quiet period or none, a depth cap of 0, 1 or 2) while time passes,
\* requests arrive, setPolicy switches the mode, and the wallet and
\* getContext() succeed or fail.
DrainOverrides == {NoPolicy, [mode |-> "manual"]}
DrainModes == {[mode |-> "manual"], [mode |-> "auto"]}

NextDrain ==
  \/ \E k \in SubmitKinds : Len(hist) < DrainReq /\ AddRequest(Len(hist) + 1, k[1], k[2]) /\ UNCHANGED bridge
  \/ \E partial \in DrainModes : SetPolicy(partial)
  \/ \E o \in DrainOverrides, settleMs \in {0, SettleMs}, maxDepth \in 0..MaxDepth :
       DrainRequests(1, o, TimeoutMs, settleMs, maxDepth)
  \/ DrainWake(1)
  \/ \E ok \in BOOLEAN : DrainReturn(1, ok)
  \/ \E c \in calls, ok \in BOOLEAN : BackendReturn(c, ok)
  \/ now < MaxTime /\ Tick

SpecDrain == Init /\ [][NextDrain]_vars

\* ------------------------------------------------------ the policy override
\* Two drains that may overlap, each with a one-shot policy or none, while
\* setPolicy is called and requests arrive; getContext() succeeds or fails.
Overrides == {NoPolicy, [mode |-> "manual"], [allowMethods |-> {SEND_TX}]}

NextOverride ==
  \/ \E k \in SubmitKinds : Len(hist) < MaxReq /\ AddRequest(Len(hist) + 1, k[1], k[2]) /\ UNCHANGED bridge
  \/ \E partial \in DrainModes : SetPolicy(partial)
  \/ \E d \in Drains, o \in Overrides : DrainRequests(d, o, TimeoutMs, 0, MaxDepth)
  \/ \E d \in Drains, ok \in BOOLEAN : DrainReturn(d, ok)
  \/ \E c \in calls, ok \in BOOLEAN : BackendReturn(c, ok)

SpecOverride == Init /\ [][NextOverride]_vars

\* ---------------------------------------------------------- waitForRequest
\* Callers of waitForRequest, suspended or not, while requests are submitted
\* (queued, or executed at once under auto-approve) with ids that may
\* collide, the table is emptied by clear(), and the timers fire.
NextWait ==
  \/ \E id \in Ids : Len(hist) < WaitReq /\ AddRequest(id, CHAIN_ID, NoTx) /\ UNCHANGED bridge
  \/ \E w \in WaitCalls : WaitForRequest(w, WaitMs)
  \/ \E w \in WaitCalls : WaitTimeout(w)
  \/ \E enabled \in BOOLEAN : SetAutoApprove(enabled)
  \/ Clear
  \/ now < MaxTime /\ Tick

SpecWait == Init /\ [][NextWait]_vars

\* ------------------------------------------------------------------ errors
\* Requests with distinct ids, one kind that processRequest has a case for
\* and one it has none for, approved and rejected one by one, by a drain or
\* by auto-approve; the reason of a reject is given, empty or left out.
ErrorKinds == {<<CHAIN_ID, NoTx>>, <<GET_CODE, NoTx>>}
RejectReasons == {"Suspicious", "", Undefined}

NextErrors ==
  \/ \E k \in ErrorKinds : Len(hist) < ErrorReq /\ AddRequest(Len(hist) + 1, k[1], k[2]) /\ UNCHANGED bridge
  \/ \E id \in 1..ErrorReq : ApproveRequest(id) /\ UNCHANGED client
  \/ \E id \in 1..ErrorReq, reason \in RejectReasons : RejectRequest(id, reason)
  \/ ApproveNext
  \/ \E reason \in RejectReasons : RejectNext(reason)
  \/ Clear
  \/ \E enabled \in BOOLEAN : SetAutoApprove(enabled)
  \/ DrainRequests(1, NoPolicy, TimeoutMs, 0, MaxDepth)
  \/ \E ok \in BOOLEAN : DrainReturn(1, ok)
  \/ \E c \in calls, ok \in BOOLEAN : BackendReturn(c, ok)

SpecErrors == Init /\ [][NextErrors]_vars

\* -------------------------------------------------------------- waitForIdle
\* One waitForIdle call while requests are submitted, approved and rejected;
\* time passes a millisecond at a time or by a whole poll interval.
NextIdle ==
  \/ Len(hist) < IdleReq /\ AddRequest(Len(hist) + 1, CHAIN_ID, NoTx) /\ UNCHANGED bridge
  \/ ApproveNext
  \/ \E reason \in Reasons : RejectNext(reason)
  \/ \E c \in calls, ok \in BOOLEAN : BackendReturn(c, ok)
  \/ WaitForIdle(TimeoutMs, SettleMs)
  \/ IdleWake
  \/ \E ms \in {1, POLL_MS} : now < MaxTime /\ Elapse(ms)

SpecIdle == Init /\ [][NextIdle]_vars

\* ------------------------------------------------------------------ Wallet
\* Transactions submitted, approved or executed at once under auto-approve,
\* while the account and the chain of the wallet are switched; the inputs of
\* the switches include the invalid ones.
AccountInputs == {-1, 0, 1, MAX_ACCOUNT_INDEX + 1}
ChainInputs == {Num(1), Num(DEFAULT_CHAIN_ID), Num(0), Num(-1), OneAndAHalf}

NextWallet ==
  \/ Len(hist) < WalletReq /\ AddRequest(Len(hist) + 1, SEND_TX, Tx(AddrA, SmallValue)) /\ UNCHANGED bridge
  \/ ApproveNext
  \/ \E enabled \in BOOLEAN : SetAutoApprove(enabled)
  \/ \E c \in calls, ok \in BOOLEAN : BackendReturn(c, ok)
  \/ \E accountIndex \in AccountInputs : SwitchAccount(accountIndex)
  \/ \E chainId \in ChainInputs : SetChainId(chainId)

SpecWallet == Init /\ [][NextWallet]_vars

\* --------------------------------------------------------------- setPolicy
\* setPolicy with partials of one field and of several, with a request
\* pending or not and auto-approve on or off.
PolicyPartials ==
  PolicyUpdates
    \cup {[mode |-> "manual", allowMethods |-> {SEND_TX}],
          [allowMethods |-> {}, maxValueEth |-> NoMax, denyTo |-> {AddrA}]}

NextSetPolicy ==
  \/ Len(hist) < PolicyReq /\ AddRequest(1, CHAIN_ID, NoTx) /\ UNCHANGED bridge
  \/ \E reason \in Reasons : RejectNext(reason)
  \/ \E enabled \in BOOLEAN : SetAutoApprove(enabled)
  \/ \E partial \in PolicyPartials : SetPolicy(partial)

SpecSetPolicy == Init /\ [][NextSetPolicy]_vars

\* ------------------------------------------------- WalletClient (client.ts)
\* the fields of the RequestQueue and of the Wallet
queueVars == <<requests, autoApprove, policy, now, hist, calls, drains, last,
              waiters, waits, basePolicy, wallet, idle>>

\* `HTTP ${response.status}: ${errorMessage}`, the server having answered 500
HttpError(message) == "HTTP 500: " \o message

\* `Request ${id} not found`
NotFoundMessage(id) == "Request " \o ToString(id) \o " not found"

\* errorMessage.includes('Unsupported method'): of the messages the approve
\* route answers, the ones that hold this text
IncludesUnsupported(message) ==
  \E method \in Methods \cup {GET_CODE} : message = HttpError(UnsupportedMessage(method))

\* the ids of getPendingRequests(), in the order of the Map
PendingIds(reqs) == [i \in 1..Len(reqs) |-> reqs[i].id]

\* a catch block that reports every failure
CaughtReportsUnsupported(cl, id, message) ==
  [cl EXCEPT !.roundResult.errors = Append(@, [id |-> id, error |-> message])]

\* the catch block of approveAllPending, ignoreUnsupported being true
Caught(cl, id, message) ==
  IF IncludesUnsupported(message)
  THEN cl
  ELSE [cl EXCEPT !.roundResult.errors = Append(@, [id |-> id, error |-> message])]

\* the end of a round of approveUntilEmpty: roundResult is added to
\* totalResult, round++, and the loop goes on while round < maxRounds
EndRound(cl) ==
  [cl EXCEPT !.totalResult = [approved |-> @.approved + cl.roundResult.approved,
                              errors |-> @.errors \o cl.roundResult.errors],
             !.roundResult = NoApproval,
             !.round = @ + 1,
             !.pc = IF cl.round + 1 < cl.maxRounds THEN "check" ELSE "done"]

\* for (const request of pending): the next request, or the end of the round
NextApproval(cl) ==
  IF cl.pending = <<>> THEN EndRound(cl) ELSE [cl EXCEPT !.pc = "approve"]

\* approveUntilEmpty({maxRounds}), up to its first getPendingRequests
ApproveUntilEmpty(maxRounds) ==
  /\ client.pc = "off"
  /\ client' = [NoClient EXCEPT !.pc = IF 0 < maxRounds THEN "check" ELSE "done",
                                !.maxRounds = maxRounds]
  /\ UNCHANGED <<queueVars, subs, provider, bridge>>

\* GET /api/pending answers approveUntilEmpty: an empty list ends the loop,
\* any other starts approveAllPending
ClientCheck ==
  /\ client.pc = "check"
  /\ client' = IF requests = <<>>
               THEN [client EXCEPT !.pc = "done"]
               ELSE [client EXCEPT !.pc = "list", !.rounds = @ + 1]
  /\ UNCHANGED <<queueVars, subs, provider, bridge>>

\* GET /api/pending answers approveAllPending
ClientList ==
  /\ client.pc = "list"
  /\ client' = NextApproval([client EXCEPT !.pending = PendingIds(requests)])
  /\ UNCHANGED <<queueVars, subs, provider, bridge>>

\* POST /api/approve for the next request of the list: queue.approveRequest
\* runs up to its await, or throws and the route answers 500
ClientApprove ==
  /\ client.pc = "approve"
  /\ LET id == Head(client.pending)
     IN /\ ApproveRequest(id)
        /\ client' =
             IF HasId(requests, id)
             THEN [client EXCEPT !.pc = "wait", !.rid = MapGet(requests, id).rid]
             ELSE NextApproval([Caught(client, id, HttpError(NotFoundMessage(id)))
                                  EXCEPT !.pending = Tail(@)])

\* the approve route has answered: approved++ on success, the catch block on
\* a failure, then the next request
ClientResume ==
  /\ client.pc = "wait"
  /\ hist[client.rid].approver.outcome # "none"
  /\ LET id == Head(client.pending)
         answer == hist[client.rid].approver
         cl == IF answer.outcome = "result"
               THEN [client EXCEPT !.roundResult.approved = @ + 1]
               ELSE Caught(client, id, HttpError(answer.error.message))
     IN client' = NextApproval([cl EXCEPT !.pending = Tail(@), !.rid = 0])
  /\ UNCHANGED <<queueVars, subs, provider, bridge>>

\* ------------------------------------------------------ approveUntilEmpty
\* One approveUntilEmpty call of at most ClientMaxRounds rounds, while
\* requests with distinct ids arrive, of a supported and of an unsupported
\* method; the wallet answers or fails, and rejectNext may take a request
\* away before the client approves it.
NextClient ==
  \/ \E k \in ErrorKinds : Len(hist) < ClientReq /\ AddRequest(Len(hist) + 1, k[1], k[2]) /\ UNCHANGED bridge
  \/ \E maxRounds \in 0..ClientMaxRounds : ApproveUntilEmpty(maxRounds)
  \/ ClientCheck
  \/ ClientList
  \/ ClientApprove
  \/ ClientResume
  \/ \E c \in calls, ok \in BOOLEAN : BackendReturn(c, ok)
  \/ RejectNext("Suspicious")

SpecClient == Init /\ [][NextClient]_vars

\* ------------------------------------------- WebSocketBridge (part_013)
NO_APPROVAL_METHODS ==
  {"eth_chainId", "net_version", "eth_blockNumber", "eth_gasPrice", "eth_getBalance",
   "eth_getTransactionCount", "eth_getTransactionReceipt", "eth_estimateGas"}

\* the connections of the browser providers
Conns == 1..NumConns

\* wss.on('connection'): handleConnection adds the socket to this.clients
Connection(ws) ==
  /\ ws \notin bridge.clients \cup bridge.closed
  /\ bridge' = [bridge EXCEPT !.clients = @ \cup {ws}]
  /\ UNCHANGED <<queueVars, client, subs, provider>>

\* ws.on('close') / ws.on('error'): this.clients.delete(ws)
Close(ws) ==
  /\ ws \in bridge.clients
  /\ bridge' = [bridge EXCEPT !.clients = @ \ {ws}, !.closed = @ \cup {ws}]
  /\ UNCHANGED <<queueVars, client, subs, provider>>

\* handleRequest(ws, request) up to `await this.queue.addRequest(method, params)`,
\* which both branches call; the other branch first broadcasts a
\* newPendingRequest notification. The queue gives the request a new id.
HandleRequest(ws, method, tx) ==
  /\ ws \in bridge.clients
  /\ AddRequest(Len(hist) + 1, method, tx)
  /\ bridge' = [bridge EXCEPT
                  !.origin = @ \cup {[rid |-> Len(hist) + 1, ws |-> ws]},
                  !.notifications = IF method \in NO_APPROVAL_METHODS THEN @ ELSE @ + 1]

\* handleRequest after its await: ws.send of the response or of the error
\* response, which reaches the provider when the socket is still open
Respond(o) ==
  /\ o \in bridge.origin
  /\ hist[o.rid].resolves + hist[o.rid].rejects > 0
  /\ \A s \in bridge.responses : s.rid # o.rid
  /\ bridge' = [bridge EXCEPT
                  !.responses = @ \cup {[rid |-> o.rid, delivered |-> o.ws \in bridge.clients]}]
  /\ UNCHANGED <<queueVars, client, subs, provider>>

\* ------------------------------------------------------------ the bridge
\* Two browser connections that open, send requests and close; a request is
\* of a method of noApprovalMethods or a transaction. The requests are
\* approved one by one or by a drain, with auto-approve on or off.
BridgeKinds == {<<CHAIN_ID, NoTx>>, <<SEND_TX, Tx(AddrA, SmallValue)>>}

NextBridge ==
  \/ \E ws \in Conns : Connection(ws)
  \/ \E ws \in Conns : Close(ws)
  \/ \E ws \in Conns, k \in BridgeKinds : Len(hist) < BridgeReq /\ HandleRequest(ws, k[1], k[2])
  \/ \E o \in bridge.origin : Respond(o)
  \/ \E enabled \in BOOLEAN : SetAutoApprove(enabled)
  \/ \E id \in 1..BridgeReq : ApproveRequest(id) /\ UNCHANGED client
  \/ ApproveNext
  \/ DrainRequests(1, NoPolicy, TimeoutMs, 0, MaxDepth)
  \/ DrainReturn(1, TRUE)
  \/ \E c \in calls, ok \in BOOLEAN : BackendReturn(c, ok)

SpecBridge == Init /\ [][NextBridge]_vars

\* ------------------------------------------------------------ subscriptions
\* the subscription of this id, as a set of at most one element
SubscriptionOf(id) == {s \in subs.subscriptions : s.id = id}

\* eth_subscribe executed: createSubscription(type) stores the subscription,
\* and for newHeads starts the interval timer
CreateSubscription(type) ==
  /\ subs.created < NumSubs
  /\ subs' = [subs EXCEPT !.created = @ + 1,
                          !.subscriptions = @ \cup {[id |-> subs.created + 1, type |-> type]}]
  /\ UNCHANGED <<queueVars, client, provider, bridge>>

\* eth_unsubscribe executed: removeSubscription(id) returns false for an
\* unknown id, otherwise clears the timer, deletes the entry and returns true
RemoveSubscription(id) ==
  /\ Len(subs.removed) < MaxRemoves
  /\ subs' = [subs EXCEPT !.subscriptions = @ \ SubscriptionOf(id),
                          !.removed = Append(@, [id |-> id, result |-> SubscriptionOf(id) # {}])]
  /\ UNCHANGED <<queueVars, client, provider, bridge>>

\* the interval timer of a newHeads subscription fires: the callback runs up
\* to `await this.wallet.getBlockNumber()`
PollStart(id) ==
  /\ [id |-> id, type |-> "newHeads"] \in subs.subscriptions
  /\ id \notin subs.polls
  /\ subs' = [subs EXCEPT !.polls = @ \cup {id}]
  /\ UNCHANGED <<queueVars, client, provider, bridge>>

\* getBlockNumber() has returned the backend's block number, or thrown: the
\* callback compares it with this.lastBlockNumber, calls notifySubscription
\* (the subscription callback, which the bridge has set) and stores it
PollReturn(id, ok) ==
  /\ id \in subs.polls
  /\ subs' = IF ok
             THEN [subs EXCEPT
                     !.polls = @ \ {id},
                     !.notified = IF /\ subs.lastBlockNumber # NULL_BLOCK
                                     /\ subs.blockNumber > subs.lastBlockNumber
                                  THEN Append(@, [id |-> id, number |-> subs.blockNumber])
                                  ELSE @,
                     !.lastBlockNumber = subs.blockNumber,
                     !.seen[id] = subs.blockNumber]
             ELSE [subs EXCEPT !.polls = @ \ {id}]
  /\ UNCHANGED <<queueVars, client, provider, bridge>>

\* the backend mines a block
Mine ==
  /\ subs.blockNumber < MaxBlock
  /\ subs' = [subs EXCEPT !.blockNumber = @ + 1]
  /\ UNCHANGED <<queueVars, client, provider, bridge>>

\* -------------------------------------------------------- the subscriptions
\* Subscriptions of the types newHeads and logs that are created and
\* removed (by ids known or not) while the backend mines blocks and the
\* interval timers fire; a poll succeeds or fails.
SubscriptionTypes == {"newHeads", "logs"}

NextSubs ==
  \/ \E type \in SubscriptionTypes : CreateSubscription(type)
  \/ \E id \in SubIds : RemoveSubscription(id)
  \/ \E id \in SubIds : PollStart(id)
  \/ \E id \in SubIds, ok \in BOOLEAN : PollReturn(id, ok)
  \/ Mine

SpecSubs == Init /\ [][NextSubs]_vars

\* ------------------------------------------------ the drain, with fairness
\* One drain at a time, with a quiet period or none and a depth cap of 1 or
\* 2, called early enough for its deadline to lie within the time modelled,
\* while requests arrive and setPolicy switches the mode. Time passes, the
\* drain's timers fire, and the wallet calls of the drain and its
\* getContext() return or throw: each of these happens eventually.
DrainBackendReturn == \E c \in calls, ok \in BOOLEAN : c.by = "drain" /\ BackendReturn(c, ok)

NextLive ==
  \/ \E k \in SubmitKinds : Len(hist) < LiveReq /\ AddRequest(Len(hist) + 1, k[1], k[2]) /\ UNCHANGED bridge
  \/ \E partial \in DrainModes : SetPolicy(partial)
  \/ \E settleMs \in {0, SettleMs}, maxDepth \in {1, MaxDepth} :
       now + TimeoutMs <= LiveMaxTime /\ DrainRequests(1, NoPolicy, TimeoutMs, settleMs, maxDepth)
  \/ DrainWake(1)
  \/ \E ok \in BOOLEAN : DrainReturn(1, ok)
  \/ DrainBackendReturn
  \/ now < LiveMaxTime /\ Tick

SpecLive ==
  /\ Init /\ [][NextLive]_vars
  /\ WF_vars(now < LiveMaxTime /\ Tick)
  /\ WF_vars(DrainWake(1))
  /\ WF_vars(DrainBackendReturn)
  /\ WF_vars(\E ok \in BOOLEAN : DrainReturn(1, ok))

\* --------------------------------------- the injected provider (injected.ts)
\* connect(): the existing connection promise, or a new promise with a new
\* socket
Connect(p) ==
  IF p.connectionPromise # 0
  THEN p
  ELSE [p EXCEPT !.promises = Append(@, "pending"),
                 !.connectionPromise = Len(p.promises) + 1,
                 !.readyState = "connecting"]

\* whether connect() called now stays within the sockets modelled
CanConnect == provider.connectionPromise # 0 \/ Len(provider.promises) < MaxSockets

\* a request() call, suspended in `await this.connect()` on this promise
NewCall(method, promise, internal) ==
  [method |-> method, pc |-> "connect", promise |-> promise, internal |-> internal]

\* the request() calls the dApp has made
DappCalls == {k \in 1..Len(provider.calls) : ~provider.calls[k].internal}

\* request(args) called by the dApp, up to `await this.connect()`
Request(method) ==
  /\ Cardinality(DappCalls) < MaxCalls
  /\ CanConnect
  /\ LET p == Connect(provider)
     IN provider' = [p EXCEPT !.calls = Append(@, NewCall(method, p.connectionPromise, FALSE))]
  /\ UNCHANGED <<queueVars, client, subs, bridge>>

\* setTimeout(() => this.connect(), 1000) of onclose fires
Reconnect ==
  /\ provider.timer
  /\ CanConnect
  /\ provider' = [Connect(provider) EXCEPT !.timer = FALSE]
  /\ UNCHANGED <<queueVars, client, subs, bridge>>

\* the events of the socket
SocketEvents ==
  {[type |-> t, call |-> 0, ok |-> TRUE] : t \in {"open", "error", "close"}}
    \cup {[type |-> "message", call |-> k, ok |-> ok] :
            k \in 1..(MaxCalls + MaxSockets), ok \in BOOLEAN}

\* ws.onopen up to `await this.request({ method: 'eth_chainId' })`, which
\* runs up to its own `await this.connect()`
OnOpen(p) ==
  [p EXCEPT !.readyState = "open",
            !.connected = TRUE,
            !.calls = Append(@, NewCall("eth_chainId", Connect(p).connectionPromise, TRUE)),
            !.handlers = Append(@, [socket |-> Len(p.promises), pc |-> "request",
                                    call |-> Len(p.calls) + 1])]

\* ws.onerror: reject(...) of the socket's connection promise when not connected
OnError(p) ==
  [p EXCEPT !.readyState = "failed",
            !.promises[Len(p.promises)] = IF ~p.connected /\ @ = "pending" THEN "rejected" ELSE @]

\* ws.onclose: every pending request is rejected, the reconnect timer is set
OnClose(p) ==
  [p EXCEPT !.readyState = "closed",
            !.connected = FALSE,
            !.connectionPromise = 0,
            !.emitted = Append(@, "disconnect"),
            !.calls = [k \in DOMAIN @ |->
                         IF k \in p.pendingRequests THEN [@[k] EXCEPT !.pc = "failed"] ELSE @[k]],
            !.pendingRequests = {},
            !.timer = TRUE]

\* ws.onmessage with the response to a pending request: handleResponse, and
\* the wrapped resolve that stores the chain id
OnMessage(p, k, ok) ==
  LET changed == ok /\ p.calls[k].method = "eth_chainId" /\ p.chainId # "0x7a69"
  IN [p EXCEPT !.pendingRequests = @ \ {k},
               !.calls[k].pc = IF ok THEN "done" ELSE "failed",
               !.chainId = IF changed THEN "0x7a69" ELSE @,
               !.emitted = IF changed THEN Append(@, "chainChanged") ELSE @]

\* the socket delivers an event to its handler
SocketEvent(ev) ==
  /\ CASE ev.type = "open" ->
            provider.readyState = "connecting" /\ provider' = OnOpen(provider)
       [] ev.type = "error" ->
            provider.readyState \in {"connecting", "open"} /\ provider' = OnError(provider)
       [] ev.type = "close" ->
            provider.readyState \in {"open", "failed"} /\ provider' = OnClose(provider)
       [] ev.type = "message" ->
            /\ provider.readyState = "open" /\ ev.call \in provider.pendingRequests
            /\ provider' = OnMessage(provider, ev.call, ev.ok)
  /\ UNCHANGED <<queueVars, client, subs, bridge>>

\* the async functions suspended in an await: the request() calls and the
\* onopen handlers
Continuations ==
  {[kind |-> "request", n |-> k] : k \in 1..Len(provider.calls)}
    \cup {[kind |-> "onopen", n |-> h] : h \in 1..Len(provider.handlers)}

\* whether the promise the continuation awaits has settled
Settles(c) ==
  IF c.kind = "request"
  THEN /\ provider.calls[c.n].pc = "connect"
       /\ provider.promises[provider.calls[c.n].promise] # "pending"
  ELSE /\ provider.handlers[c.n].pc = "request"
       /\ provider.calls[provider.handlers[c.n].call].pc \in {"done", "failed"}

\* request() after `await this.connect()`: it throws the rejection of the
\* promise, or throws 4900 when the socket is not open, or stores its
\* resolve and reject under a new id and sends the request
AfterConnect(p, k) ==
  IF p.promises[p.calls[k].promise] = "rejected" \/ p.readyState # "open"
  THEN [p EXCEPT !.calls[k].pc = "failed"]
  ELSE [p EXCEPT !.calls[k].pc = "sent", !.requestId = @ + 1,
                 !.pendingRequests = @ \cup {k}]

\* ws.onopen after its await: the chain id, emit('connect'),
\* resolveConnectionReady(), resolve()
AfterChainId(p, h) ==
  LET got == p.calls[p.handlers[h].call].pc = "done"
  IN [p EXCEPT !.handlers[h].pc = "done",
               !.chainId = IF got THEN "0x7a69" ELSE @,
               !.emitted = Append(@, "connect"),
               !.ready = TRUE,
               !.promises[p.handlers[h].socket] = IF @ = "pending" THEN "resolved" ELSE @]

\* a suspended async function goes on once the promise it awaits has settled
Resume(c) ==
  /\ Settles(c)
  /\ provider' = IF c.kind = "request" THEN AfterConnect(provider, c.n)
                 ELSE AfterChainId(provider, c.n)
  /\ UNCHANGED <<queueVars, client, subs, bridge>>

\* ------------------------------------------------------------ the provider
\* A provider whose socket opens, fails or closes and is opened again by the
\* reconnect timer, while the dApp calls request(). A continuation whose
\* promise has settled runs, and the server answers every request it has
\* been sent.
ProviderMethods == {"eth_chainId", "eth_accounts"}

Resumes == \E c \in Continuations : Resume(c)

Answers == \E k \in provider.pendingRequests : SocketEvent([type |-> "message", call |-> k, ok |-> TRUE])

NextProvider ==
  \/ \E method \in ProviderMethods : Request(method)
  \/ Reconnect
  \/ \E ev \in SocketEvents : SocketEvent(ev)
  \/ Resumes

SpecProvider ==
  /\ Init /\ [][NextProvider]_vars
  /\ WF_vars(Resumes)
  /\ WF_vars(Answers)

\* ------------------------------------------------------------------ claims
Settled(rid) == hist[rid].resolves + hist[rid].rejects
InFlight(rid) == \E c \in calls : c.rid = rid
InTableOf(reqs, rid) == \E i \in 1..Len(reqs) : reqs[i].rid = rid
EverRemoved(id) ==
  \E r \in DOMAIN hist : hist[r].id = id /\ hist[r].removed \in {"approved", "rejected", "cleared"}

\* C1: the wallet is called at most once for every request, and never for a
\* request that reject, rejectNext, a drain denial or clear took out of the table.
C1_BackendAtMostOnce ==
  \A r \in DOMAIN hist :
    /\ hist[r].invoked <= 1
    /\ hist[r].removed \in {"rejected", "cleared"} => hist[r].invoked = 0

\* two overlapping drains each wait for the wallet call of one request
C1_Witness ==
  /\ \A d \in Drains : drains[d].pc = "exec"
  /\ \A r \in DOMAIN hist : hist[r].invoked = 1

\* C2: once an id has been removed from the table by approve, reject,
\* approveNext, rejectNext, drain or clear, every later approve(id) or
\* reject(id) fails with NotFound and leaves the table unchanged.
C2_RemovedIdNotFound ==
  [][(last' # last /\ last'.op \in {"approve", "reject"} /\ EverRemoved(last'.id))
       => (last'.result = "NotFound" /\ requests' = requests)]_vars

\* C3: resolve or reject of a request's promise is called at most once in
\* all, and never while the request is in the pending table.
C3_SettlesOnce ==
  \A r \in DOMAIN hist :
    /\ Settled(r) <= 1
    /\ Settled(r) = 1 => ~InTable(r)

\* clear() has just rejected one request while the approval of another one
\* is still waiting for the wallet
C3_Witness ==
  /\ last.op = "clear"
  /\ \E r1, r2 \in DOMAIN hist :
       /\ hist[r1].removed = "cleared" /\ hist[r1].rejects = 1
       /\ hist[r2].removed = "approved" /\ InFlight(r2) /\ Settled(r2) = 0

\* C4: a submit never removes or replaces an entry of the pending table, and
\* every queued request is in the table, with the wallet, or settled.
C4_SubmitKeepsPending ==
  [][\A r \in DOMAIN hist :
       (InTable(r) /\ Len(hist') > Len(hist)) => InTableOf(requests', r)]_vars

\* C5: the ids given to the requests are pairwise distinct.
C5_IdsDistinct ==
  \A r1, r2 \in DOMAIN hist : r1 # r2 => hist[r1].id # hist[r2].id


Position(reqs, rid) == CHOOSE i \in 1..Len(reqs) : reqs[i].rid = rid

\* r is taken before r2: older, or as old and earlier in the table's order
Before(reqs, r, r2) ==
  LET a == reqs[Position(reqs, r)]
      b == reqs[Position(reqs, r2)]
  IN \/ a.timestamp < b.timestamp
     \/ a.timestamp = b.timestamp /\ Position(reqs, r) < Position(reqs, r2)

\* C6: approveNext, rejectNext and drain take out a pending request with the
\* smallest timestamp, the first of them in the table's insertion order when
\* several have it: whatever they leave in the table comes after what they
\* took. approveNext and rejectNext take exactly one request, and on an empty
\* table they return null and change nothing.
C6_OldestFirst ==
  [][/\ Len(hist') = Len(hist) =>
          \A r, r2 \in DOMAIN hist :
            (InTable(r) /\ ~InTableOf(requests', r) /\ InTableOf(requests', r2))
              => Before(requests, r, r2)
     /\ (last' # last /\ last'.op \in {"approveNext", "rejectNext"}) =>
          IF requests = <<>>
          THEN last'.result = "null" /\ requests' = requests /\ hist' = hist /\ calls' = calls
          ELSE /\ Len(requests') = Len(requests) - 1
               /\ InTable(last'.rid) /\ ~InTableOf(requests', last'.rid)]_vars

\* three requests submitted at t1 < t2 < t3 are pending together and
\* approveNext has just taken the first of them
C6_Witness ==
  /\ Len(hist) = 3 /\ Len(requests) = 2
  /\ hist[1].timestamp < hist[2].timestamp /\ hist[2].timestamp < hist[3].timestamp
  /\ last.op = "approveNext" /\ last.seen = 3 /\ last.rid = 1
  /\ hist[1].removed = "approved" /\ InFlight(1)


\* the drain decides request r in this step, under the policy in force in it
Decides(r) == hist[r].decision = "none" /\ hist'[r].decision # "none"

IsTx(r) == hist[r].method = SEND_TX /\ hist[r].tx.present

\* C7: while auto-approve is on, addRequest leaves the table as it is and
\* calls processRequest at once, whatever the policy; a request submitted
\* that way is never in the table.
C7_AutoApproveBypasses ==
  /\ [](\A r \in DOMAIN hist : ~hist[r].queued => ~InTable(r))
  /\ [][(autoApprove /\ Len(hist') = Len(hist) + 1) =>
          /\ requests' = requests
          /\ ~hist'[Len(hist')].queued
          /\ hist'[Len(hist')].invoked = 1
          /\ \E c \in calls' : c.rid = Len(hist')]_vars

\* under a manual policy that also denies its method, a request submitted
\* with auto-approve on has been executed and resolved
C7_Witness ==
  /\ autoApprove /\ policy.mode = "manual" /\ CHAIN_ID \in policy.denyMethods
  /\ requests = <<>>
  /\ \E r \in DOMAIN hist :
       hist[r].method = CHAIN_ID /\ ~hist[r].queued /\ hist[r].resolves = 1

\* C8: under an auto-mode policy whose denyMethods lacks eth_sendTransaction,
\* a drain denies every eth_sendTransaction whose value exceeds maxValueEth,
\* with the reason that names the cap.
C8_ValueCapDenies ==
  [][\A r \in DOMAIN hist :
       (/\ Decides(r) /\ IsTx(r)
        /\ policy'.mode = "auto" /\ SEND_TX \notin policy'.denyMethods
        /\ hist[r].tx.value # NoValue /\ hist[r].tx.value > MaxWei(policy'))
         => (/\ hist'[r].decision = "deny"
             /\ hist'[r].error.message = "Transaction value exceeds max")]_vars

\* C9: a drain never approves a transaction whose recipient is in denyTo.
C9_DenyToDenies ==
  [][\A r \in DOMAIN hist :
       (Decides(r) /\ IsTx(r) /\ hist[r].tx.to # NoTo /\ hist[r].tx.to \in policy'.denyTo)
         => hist'[r].decision = "deny"]_vars

\* C10: the policy approves only in auto mode, a method that is not in
\* denyMethods and is in allowMethods; manual mode, a denied method and a
\* method that is no transaction and is not in allowMethods are denied, and
\* every denial carries a reason.
C10_NoImplicitAllow ==
  [][\A r \in DOMAIN hist :
       Decides(r) =>
         /\ hist'[r].decision = "approve" =>
              /\ policy'.mode = "auto"
              /\ hist[r].method \notin policy'.denyMethods
              /\ hist[r].method \in policy'.allowMethods
         /\ (\/ policy'.mode = "manual"
             \/ hist[r].method \in policy'.denyMethods
             \/ hist[r].method # SEND_TX /\ hist[r].method \notin policy'.allowMethods)
              => hist'[r].decision = "deny"
         /\ hist'[r].decision = "deny" =>
              /\ hist'[r].error.message # ""
              /\ hist'[r].rejects = 1 /\ hist'[r].invoked = 0]_vars

\* in auto mode a drain has denied eth_chainId, which no list names, with
\* the reason of the default rule
C10_Witness ==
  /\ policy.mode = "auto" /\ CHAIN_ID \notin policy.allowMethods \cup policy.denyMethods
  /\ \E r \in DOMAIN hist :
       /\ hist[r].method = CHAIN_ID /\ hist[r].decision = "deny"
       /\ hist[r].error.message = "Method not in allow list"

\* C11: under an auto-mode policy with maxValueEth 0.1 whose allowMethods
\* and denyMethods do not list eth_sendTransaction and whose recipient lists
\* do not exclude the recipient, a drain approves an eth_sendTransaction whose
\* value is below the cap.
C11_SmallTxApproved ==
  [][\A r \in DOMAIN hist :
       (/\ Decides(r) /\ IsTx(r)
        /\ policy'.mode = "auto" /\ policy'.maxValueEth = TenthEth
        /\ SEND_TX \notin policy'.allowMethods \cup policy'.denyMethods
        /\ hist[r].tx.value # NoValue /\ hist[r].tx.value < MaxWei(policy')
        /\ hist[r].tx.to \notin policy'.denyTo
        /\ (policy'.allowTo = {} \/ hist[r].tx.to \in policy'.allowTo))
         => hist'[r].decision = "approve"]_vars

\* a step of a drain: its call, a resumption of its loop, or its return
DrainStep == drains' # drains

\* C12: a drain running under a manual-mode policy neither approves nor
\* rejects a pending request, and when it returns before its depth cap with a
\* request pending under that policy, its status is timeout.
C12_ManualStaysPending ==
  [][/\ \A r \in DOMAIN hist :
          (InTable(r) /\ DrainStep /\ policy'.mode = "manual")
            => (~Decides(r) /\ InTableOf(requests', r))
     /\ (/\ drains[1].pc = "ctx" /\ drains'[1].pc = "off" /\ last'.result = "ok"
         /\ policy.mode = "manual" /\ requests # <<>>
         /\ drains[1].depth < drains[1].maxDepth)
          => last'.drain.status = "timeout"]_vars

\* the entry of request r in a rejected list
RejectedAs(list, r, reason) ==
  \E i \in 1..Len(list) : list[i].rid = r /\ list[i].reason = reason

DrainReturns == drains[1].pc = "ctx" /\ drains'[1].pc = "off" /\ last'.result = "ok"

\* no request arrived and setPolicy was not called between the call of the
\* drain that returns and its return
QuietDrain ==
  /\ requests = <<>> /\ drains[1].depth = 0
  /\ basePolicy = IF drains[1].override = NoPolicy THEN policy
                  ELSE drains[1].originalPolicy

\* C14: a drain with a positive depth cap and settleMs < timeoutMs, called on
\* an empty table to which no request arrives, returns status idle with
\* empty approved and rejected lists and leaves the table and the policy as
\* they were.
C14_EmptyDrainIsIdle ==
  [][(/\ DrainReturns /\ QuietDrain
      /\ drains[1].maxDepth > 0 /\ drains[1].settleMs < TimeoutMs)
       => (/\ last'.drain.status = "idle"
           /\ last'.drain.approved = <<>> /\ last'.drain.rejected = <<>>
           /\ requests' = <<>> /\ policy' = basePolicy)]_vars

\* C15: whenever no drain is in progress, this.policy is DEFAULT_POLICY with
\* the partials of the setPolicy calls merged in, and nothing else.
C15_OverrideNeverPersists ==
  (\A d \in Drains : drains[d].pc = "off") => policy = basePolicy

\* requests a drain has processed so far
Processed(dr) == Len(dr.approved) + Len(dr.rejected)

\* C16: a drain never has more than maxDepth requests in its approved and
\* rejected lists, and the result it returns has status maxDepth exactly
\* when the two lists hold maxDepth requests.
C16_AtMostMaxDepth ==
  [][/\ Processed(drains'[1]) <= drains'[1].maxDepth
     /\ DrainReturns =>
          /\ Len(last'.drain.approved) + Len(last'.drain.rejected) = Processed(drains[1])
          /\ last'.drain.status = "maxDepth" <=> Processed(drains[1]) = drains[1].maxDepth]_vars

\* a drain has returned with status maxDepth after one request, the second
\* one still pending
C16_Witness ==
  /\ last.op = "drain" /\ last.drain.status = "maxDepth"
  /\ Len(last.drain.approved) + Len(last.drain.rejected) = 1
  /\ last.drain.finalState.pendingCount = 1 /\ Len(requests) = 1
  /\ \E r \in DOMAIN hist : InTable(r) /\ hist[r].timestamp = 0

\* the wallet call the drain waits for fails in this step
DrainCallFails(c) ==
  /\ c \in calls /\ c.by = "drain" /\ c \notin calls'
  /\ hist'[c.rid].rejects = hist[c.rid].rejects + 1

QueuedSubmit == Len(hist') = Len(hist) + 1 /\ hist'[Len(hist')].queued

Suspended == {w \in WaitCalls : waits[w].pc = "waiting"}

\* the suspended caller that has waited longest: its callback comes first
LongestWaiting ==
  CHOOSE w \in Suspended :
    \A v \in Suspended : IndexOf(waiters, Wrapper(w)) <= IndexOf(waiters, Wrapper(v))

\* C18 as stated: a queued submit releases the suspended caller that has
\* waited longest, with that request, and leaves every other suspended
\* caller suspended.
C18_OneWaiterReleased ==
  [][(QueuedSubmit /\ Suspended # {}) =>
       /\ waits'[LongestWaiting].pc = "returned"
       /\ waits'[LongestWaiting].rid = Len(hist')
       /\ \A v \in Suspended \ {LongestWaiting} : waits'[v] = waits[v]]_vars

\* C18, amended: a queued submit releases every suspended caller with that
\* request and empties this.waiters; a submit executed under auto-approve
\* releases nobody; and a suspended caller is released by nothing but a
\* queued submit or its own timer, not before its deadline.
C18_AllWaitersReleased ==
  [][/\ QueuedSubmit =>
          /\ \A w \in Suspended : waits'[w].pc = "returned" /\ waits'[w].rid = Len(hist')
          /\ \A w \in WaitCalls \ Suspended : waits'[w] = waits[w]
          /\ waiters' = <<>>
     /\ (Len(hist') = Len(hist) + 1 /\ ~hist'[Len(hist')].queued) =>
          (waits' = waits /\ waiters' = waiters)
     /\ \A w \in Suspended :
          (waits'[w] # waits[w] /\ ~QueuedSubmit) =>
            /\ waits'[w].pc = "timeout" /\ now >= waits[w].deadline
            /\ hist' = hist /\ requests' = requests]_vars

\* two callers that were suspended together have both returned the same
\* request
C18_Witness ==
  /\ waits[1].pc = "returned" /\ waits[2].pc = "returned"
  /\ ~waits[1].immediate /\ ~waits[2].immediate
  /\ waits[1].rid = waits[2].rid /\ waits[1].rid \in DOMAIN hist
  /\ waiters = <<>>

\* the pending request that was submitted first (requests are numbered in
\* the order of their submission)
EarliestSubmitted ==
  CHOOSE r \in DOMAIN hist : InTable(r) /\ \A r2 \in DOMAIN hist : InTable(r2) => r <= r2

\* C19: waitForRequest called on a non-empty table returns at once, with
\* the pending request that was submitted first, and suspends otherwise;
\* every caller suspended at a queued submit is released in that step with
\* the request submitted.
C19_NoMissedWakeup ==
  [][/\ \A w \in WaitCalls :
          (waits[w].pc = "off" /\ waits'[w].pc # "off") =>
            IF requests # <<>>
            THEN /\ waits'[w].pc = "returned" /\ waits'[w].immediate
                 /\ waits'[w].rid = EarliestSubmitted
                 /\ waiters' = waiters
            ELSE waits'[w].pc = "waiting"
     /\ QueuedSubmit =>
          \A w \in Suspended : waits'[w].pc = "returned" /\ waits'[w].rid = Len(hist')]_vars

\* C20: clear() empties the table and rejects, in the same step, every
\* request that was in it with code 4900 and no call of the wallet; it
\* touches no other request; and a request submitted with auto-approve off
\* is in the table, unsettled, after its submit, whatever clear() did before.
C20_ClearIsAtomic ==
  /\ [](\A r \in DOMAIN hist :
          hist[r].removed = "cleared" =>
            /\ hist[r].rejects = 1 /\ hist[r].resolves = 0 /\ hist[r].invoked = 0
            /\ hist[r].error = [message |-> "Queue cleared", code |-> DISCONNECTED]
            /\ ~InTable(r))
  /\ [][/\ (last' # last /\ last'.op = "clear") =>
             /\ requests' = <<>> /\ calls' = calls /\ Len(hist') = Len(hist)
             /\ \A r \in DOMAIN hist :
                  IF InTable(r) THEN hist'[r].removed = "cleared"
                  ELSE hist'[r] = hist[r]
        /\ (Len(hist') = Len(hist) + 1 /\ ~autoApprove) =>
             /\ InTableOf(requests', Len(hist'))
             /\ hist'[Len(hist')].resolves + hist'[Len(hist')].rejects = 0]_vars

\* clear() has failed the first request with code 4900 and the request
\* submitted after it is pending and unsettled
C20_Witness ==
  /\ last.op = "clear" /\ last.seen = 1 /\ Len(hist) = 2
  /\ hist[1].removed = "cleared" /\ hist[1].error.code = DISCONNECTED
  /\ InTable(2) /\ Settled(2) = 0 /\ Len(requests) = 1

\* C21: reject(id, reason) on a pending id fails the request's submit with an
\* error whose message is exactly the reason given (the default user-rejected
\* message when the reason is left out) and whose code is 4001, and takes the
\* id out of the table.
C21_RejectCarriesReason ==
  [][\A id \in 1..ErrorReq, reason \in RejectReasons :
       (HasId(requests, id) /\ RejectRequest(id, reason))
       => LET rid == MapGet(requests, id).rid
          IN /\ hist'[rid].rejects = 1
             /\ hist'[rid].resolves = 0
             /\ hist'[rid].error =
                  [message |-> IF reason = Undefined THEN "User rejected the request"
                               ELSE reason,
                   code |-> 4001]
             /\ ~HasId(requests', id)]_vars

\* one request rejected with "Suspicious", another without a reason
C21_Witness ==
  /\ Len(hist) = 2
  /\ hist[1].removed = "rejected" /\ hist[1].error = [message |-> "Suspicious", code |-> 4001]
  /\ hist[2].removed = "rejected"
  /\ hist[2].error = [message |-> "User rejected the request", code |-> 4001]
  /\ last.op = "reject"
  /\ requests = <<>>

\* C22: when the wallet call of an approve(id) returns, the approver and the
\* submitter get the same outcome: the result to both, or the same error to
\* both; the request left the table when it was approved and is not in it
\* afterwards.
C22_ApproverSeesSubmitterOutcome ==
  [][/\ \A id \in 1..ErrorReq :
          (HasId(requests, id) /\ ApproveRequest(id)) => ~HasId(requests', id)
     /\ \A c \in calls :
          (c.by = "approve" /\ c \notin calls')
          => LET before == hist[c.rid]
                 after == hist'[c.rid]
             IN /\ before.resolves + before.rejects = 0
                /\ after.resolves + after.rejects = 1
                /\ after.approver.outcome = IF after.resolves = 1 THEN "result" ELSE "error"
                /\ after.approver.error = after.error
                /\ ~InTable(c.rid)'
     /\ \A r \in DOMAIN hist : hist[r].removed = "approved" => ~InTable(r)']_vars

\* one approval that gave its result to both, and one that gave the wallet's
\* error to both
C22_Witness ==
  /\ Len(hist) = 2
  /\ \A r \in {1, 2} : hist[r].queued /\ hist[r].removed = "approved"
                       /\ hist[r].decision = "none"
  /\ hist[1].approver.outcome = "result" /\ hist[1].resolves = 1
  /\ hist[2].approver.outcome = "error" /\ hist[2].rejects = 1
  /\ hist[2].error.message = "backend failure"

\* C23: the execution of a request whose method processRequest has no case for,
\* started by an approve or by auto-approve, fails with the error "Unsupported
\* method: <method>", which goes to the submitter and to the approver when
\* there is one; the wallet is not called.
C23_UnsupportedMethodFails ==
  [][\A c \in calls :
       (c \notin calls' /\ hist[c.rid].method \notin Methods)
       => LET after == hist'[c.rid]
          IN /\ after.rejects = 1 /\ after.resolves = 0
             /\ after.error.message = "Unsupported method: " \o after.method
             /\ c.by # "auto" => after.approver = [outcome |-> "error", error |-> after.error]
             /\ after.invoked = 0
             /\ after.wallet = NoWallet]_vars

\* an eth_getCode request failed by an approve, another by auto-approve
C23_Witness ==
  /\ Len(hist) = 2
  /\ \A r \in {1, 2} : /\ hist[r].method = GET_CODE
                       /\ hist[r].error.message = "Unsupported method: eth_getCode"
                       /\ hist[r].invoked = 0
  /\ hist[1].queued /\ hist[1].approver.outcome = "error"
  /\ ~hist[2].queued /\ hist[2].rejects = 1

\* C24: every error a submitter receives carries a code of the EIP-1193 table:
\* 4001 after a reject, 4900 after a clear, 4200 for a method processRequest
\* has no case for.
C24_CodesFromTable ==
  \A r \in DOMAIN hist :
    hist[r].rejects > 0
    => /\ hist[r].error.code \in {4001, 4100, 4200, 4900, 4901}
       /\ hist[r].removed = "rejected" => hist[r].error.code = 4001
       /\ hist[r].removed = "cleared" => hist[r].error.code = 4900
       /\ (hist[r].method \notin Methods /\ hist[r].removed \in {"no", "approved"})
          => hist[r].error.code = 4200

\* the approve or approveNext call whose wallet call is c is the last control
\* operation made
LastStarted(c) == last.rid = c.rid /\ last.op \in {"approve", "approveNext"}

\* C27: a control operation in which the queue or the wallet fails gives its
\* caller a structured result; no exception leaves the tool handler. Covered:
\* approve and reject of an unknown id, approve and approveNext whose wallet
\* call fails, a drain whose context read fails.
C27_NoExceptionEscapes ==
  [][/\ \A c \in calls :
          (c \notin calls' /\ LastStarted(c))
          => ToolOutcome(ToolOf(last.op), hist'[c.rid].approver.outcome = "error")
               # "exception"
     /\ (last' # last /\ last'.op \in {"approve", "reject", "approveNext", "rejectNext", "drain"})
        => ToolOutcome(ToolOf(last'.op), last'.result \in {"NotFound", "threw"})
             # "exception"]_vars

\* a waitForIdle step, and the step in which the call returns
IdleStep == idle' # idle
IdleReturns == idle.pc # "done" /\ idle'.pc = "done"

\* a request entered the table during the settle sleep that has just ended,
\* no more than settleMs ago
TableUsedInWindow ==
  \E r \in DOMAIN hist :
    r > idle.histLen /\ hist[r].queued /\ hist[r].timestamp >= now - idle.settleMs

\* C25: waitForIdle returns true only if the table was empty during the whole
\* settleMs before the return (a request submitted and then approved or
\* rejected in that time prevents a true result), returns false only once
\* timeoutMs has passed, and never changes the table.
C25_IdleMeansQuiet ==
  [][/\ (IdleReturns /\ idle'.result) => (requests = <<>> /\ ~TableUsedInWindow)
     /\ (IdleReturns /\ ~idle'.result) => now >= idle.deadline
     /\ IdleStep => (requests' = requests /\ hist' = hist)]_vars

\* the request's execution starts in this step
Dispatched(r) ==
  /\ r \in DOMAIN hist'
  /\ hist'[r].invoked = 1
  /\ (r \in DOMAIN hist => hist[r].invoked = 0)

\* C26: a request is executed with the account and chain the wallet has when
\* its execution starts, whatever they were when it was submitted, and a
\* switch made after that start does not change what the request runs with.
C26_SwitchNotRetroactive ==
  [][/\ \A r \in DOMAIN hist' : Dispatched(r) => hist'[r].wallet = wallet
     /\ \A r \in DOMAIN hist : hist[r].invoked = 1 => hist'[r].wallet = hist[r].wallet]_vars

\* request 1, submitted under the first account and chain 31337, was approved
\* after a switch to the second account and chain 1 and ran with those;
\* request 2 is still running with them after the wallet was switched back
C26_Witness ==
  /\ Len(hist) = 2
  /\ hist[1].queued /\ hist[1].walletAtSubmit = DefaultWallet
  /\ hist[1].wallet = [account |-> ANVIL_ACCOUNTS[2], chainId |-> 1]
  /\ hist[1].resolves = 1
  /\ hist[2].wallet = [account |-> ANVIL_ACCOUNTS[2], chainId |-> 1]
  /\ \E c \in calls : c.rid = 2
  /\ wallet = DefaultWallet

\* C30: setChainId(c) with c a positive integer makes getChainId() return c
\* and leaves the address as it was; with c zero, negative or not an integer
\* it throws 'Chain ID must be a positive integer' and getChainId() returns
\* what it did.
C30_SetChainIdValidates ==
  [][\A c \in ChainInputs :
       SetChainId(c)
       => IF c.den = 1 /\ c.num > 0
          THEN /\ getChainId' = c.num
               /\ getAddress' = getAddress
               /\ last'.result = "ok"
          ELSE /\ last'.result = "Chain ID must be a positive integer"
               /\ getChainId' = getChainId
               /\ getAddress' = getAddress]_vars

\* setChainId(1) was accepted, a later invalid call threw and left chain 1
C30_Witness ==
  /\ last.op = "setChainId"
  /\ last.result = "Chain ID must be a positive integer"
  /\ getChainId = 1
  /\ getAddress = ANVIL_ACCOUNTS[1]

\* C28: a waitForRequest call changes nothing in the pending table, neither
\* when it returns a request, which is then still pending, nor when its
\* timer fires: no request is rejected or removed by a wait.
C28_WaitLeavesTable ==
  [][\A w \in WaitCalls :
       /\ (WaitForRequest(w, WaitMs) \/ WaitTimeout(w))
          => /\ requests' = requests
             /\ hist' = hist
             /\ calls' = calls
       /\ (waits[w].pc # "returned" /\ waits'[w].pc = "returned")
          => LET after == hist'[waits'[w].rid]
             IN /\ InTableOf(requests', waits'[w].rid)
                /\ after.resolves + after.rejects = 0]_vars

\* one call timed out, a later call returned request 1, which is pending
C28_Witness ==
  /\ waits[1].pc = "timeout"
  /\ waits[2].pc = "returned" /\ waits[2].rid = 1
  /\ InTable(1) /\ Settled(1) = 0

\* C29: setPolicy(partial) gives every field that partial has the value it has
\* in partial (a list is replaced, not added to) and leaves the other fields
\* of the policy, the pending table and the auto-approve flag as they were;
\* getPolicy() returns the result.
C29_SetPolicyReplacesFields ==
  [][\A partial \in PolicyPartials :
       SetPolicy(partial)
       => /\ DOMAIN getPolicy' = DOMAIN getPolicy
          /\ \A f \in DOMAIN getPolicy :
               getPolicy'[f] = IF f \in DOMAIN partial THEN partial[f] ELSE getPolicy[f]
          /\ requests' = requests
          /\ hist' = hist
          /\ autoApprove' = autoApprove]_vars

\* with a request pending, allowMethods was replaced by a list without
\* eth_chainId and the mode was set; the value cap is still the default
C29_Witness ==
  /\ getPolicy.allowMethods = {SEND_TX}
  /\ getPolicy.mode = "manual"
  /\ getPolicy.maxValueEth = TenthEth
  /\ getPolicy.denyMethods = {}
  /\ Len(requests) = 1

\* the approvals the server has answered with success
Succeeded == {r \in DOMAIN hist : hist[r].approver.outcome = "result"}

\* the errors approveUntilEmpty has collected so far
ClientErrors == client.totalResult.errors \o client.roundResult.errors

\* what approveUntilEmpty reports, whenever it is not waiting for an answer
\* to an approval: approved is the number of approvals that succeeded, and no
\* error is that of a request whose approval failed on an unsupported method
ClientReport ==
  /\ client.rounds <= client.maxRounds
  /\ client.pc # "wait" =>
       client.totalResult.approved + client.roundResult.approved = Cardinality(Succeeded)
  /\ \A i \in 1..Len(ClientErrors) :
       LET r == ClientErrors[i].id
       IN hist[r].approver.outcome = "error" => hist[r].method \in Methods

\* C31: approveUntilEmpty runs approveAllPending at most maxRounds times,
\* ends at the first round whose getPendingRequests gives an empty list, and
\* reports as approved the number of approvals that succeeded, with no error
\* for an approval that failed on an unsupported method.
C31_BoundedRoundsAndCount ==
  [][/\ ClientReport'
     /\ (client.pc = "check" /\ client' # client /\ requests = <<>>)
          => (client'.pc = "done" /\ client'.totalResult = client.totalResult)
     /\ client.pc = "done" => client' = client]_vars

\* approveUntilEmpty has returned after maxRounds rounds that each found a
\* request, one approved and one failed on an unsupported method, with a
\* request still pending
C31_Witness ==
  /\ client.pc = "done" /\ client.maxRounds = ClientMaxRounds
  /\ client.rounds = ClientMaxRounds
  /\ requests # <<>>
  /\ client.totalResult.approved = 1
  /\ client.totalResult.errors = <<>>
  /\ \E r \in DOMAIN hist : hist[r].approver.outcome = "error" /\ hist[r].method = GET_CODE

\* C32: a request of a method of noApprovalMethods that the bridge hands to
\* the queue is executed at once and does not enter the pending table,
\* whatever the auto-approve flag.
C32_ReadOnlyBypassesTable ==
  [][\A o \in bridge'.origin \ bridge.origin :
       hist'[o.rid].method \in NO_APPROVAL_METHODS
         => (~InTableOf(requests', o.rid) /\ hist'[o.rid].invoked = 1)]_vars

\* C40: once a connection has closed, none of its requests is in the pending
\* table, and the wallet is not called for any of them afterwards.
C40_ClosedConnectionLeavesNothing ==
  [][/\ \A o \in bridge'.origin :
          o.ws \in bridge'.closed => ~InTableOf(requests', o.rid)
     /\ \A o \in bridge.origin :
          o.ws \in bridge.closed => hist'[o.rid].invoked = hist[o.rid].invoked]_vars

\* C34: the result of a drain that returns status idle has a final context
\* with pendingCount 0, the table being what getContext reads after its
\* await of wallet.getBalance().
C34_IdleSnapshotEmpty ==
  [][(DrainReturns /\ last'.drain.status = "idle")
       => last'.drain.finalState.pendingCount = 0]_vars

\* C37: this.waiters holds only callbacks of waitForRequest calls that are
\* still suspended, so a submit, which calls every callback of the list,
\* calls none of a wait that has timed out.
C37_WaitersAreWaiting ==
  \A i \in 1..Len(waiters) : waits[waiters[i].w].pc = "waiting"

\* C38: the policy that getPolicy() and getContext() report is the configured
\* one (DEFAULT_POLICY with the setPolicy partials) also while a drain with
\* an override runs, and a drain called without override decides every
\* request as the configured policy does.
C38_OverrideIsLocal ==
  [][/\ getPolicy' = basePolicy'
     /\ \A d \in Drains, r \in DOMAIN hist :
          (/\ drains'[d] # drains[d] /\ drains'[d].pc # "off"
           /\ drains'[d].override = NoPolicy /\ Decides(r))
            => hist'[r].decision =
                 IF shouldAutoApprove(hist[r], basePolicy).approve THEN "approve" ELSE "deny"]_vars

\* the ids for which a removeSubscription call has returned true
Unsubscribed == {subs.removed[i].id : i \in {j \in 1..Len(subs.removed) : subs.removed[j].result}}

\* the notifications sent in this step
NewNotifications ==
  {subs'.notified[i] : i \in (Len(subs.notified) + 1)..Len(subs'.notified)}

\* C35: once removeSubscription(id) has returned true the subscription
\* callback is not called for id any more, and a further
\* removeSubscription(id) returns false.
C35_NothingAfterUnsubscribe ==
  [][/\ \A n \in NewNotifications : n.id \notin Unsubscribed
     /\ Len(subs'.removed) > Len(subs.removed) =>
          LET r == subs'.removed[Len(subs'.removed)]
          IN r.id \in Unsubscribed => ~r.result]_vars

\* C36: when a poll of a subscription that is still active gets a block
\* number higher than the one its previous poll got, the subscription is
\* notified of that block.
C36_EverySubscriptionNotified ==
  [][\A id \in SubIds :
       (/\ SubscriptionOf(id) # {}
        /\ subs.seen[id] # NULL_BLOCK /\ subs'.seen[id] > subs.seen[id])
         => [id |-> id, number |-> subs'.seen[id]] \in NewNotifications]_vars

\* the drain call ends in this step, by a return or by an exception
DrainEnds == drains[1].pc # "off" /\ drains'[1].pc = "off"

\* C33: every drain call ends, and it ends by returning a result whose
\* status is idle, timeout or maxDepth.
C33_DrainReturnsResult ==
  /\ (drains[1].pc # "off") ~> (drains[1].pc = "off")
  /\ [][DrainEnds => (/\ last'.result = "ok"
                      /\ last'.drain.status \in {"idle", "timeout", "maxDepth"})]_vars

\* the onopen handler of the socket that is open has run to its end: the
\* chain id is fetched, 'connect' is emitted, the connection promise resolved
HandshakeDone ==
  \E h \in 1..Len(provider.handlers) :
    /\ provider.handlers[h].socket = Len(provider.promises)
    /\ provider.handlers[h].pc = "done"
    /\ provider.promises[provider.handlers[h].socket] = "resolved"

\* request() call k of the dApp, made for the socket that is open, is still
\* suspended in `await this.connect()`
WaitsToSend(k) ==
  /\ k \in DappCalls
  /\ provider.calls[k].pc = "connect"
  /\ provider.calls[k].promise = Len(provider.promises)
  /\ provider.readyState = "open"

\* C39: while the socket stays open the provider completes its handshake,
\* and every request() call made for that socket goes on to send its request.
C39_HandshakeCompletes ==
  /\ (provider.readyState = "open") ~> (HandshakeDone \/ provider.readyState # "open")
  /\ \A k \in 1..(MaxCalls + MaxSockets) :
       WaitsToSend(k) ~> (~WaitsToSend(k))
====
